---------------------------- MODULE Spec2Model ----------------------------
(***************************************************************************)
(* Model of the X12 EDI bootstrap orchestration layer:                     *)
(*   - the outbound delivery pipeline (functions/edi/outbound/handler.ts), *)
(*   - partnership resolution (lib/loadPartnership.ts),                    *)
(*   - the FTP/SFTP poller (functions/ftp/external-poller/handler.ts and   *)
(*     its protocols/sftp.ts).                                             *)
(* Every component has its own specification; the variables of the other   *)
(* components stay at their idle values.                                   *)
(***************************************************************************)
EXTENDS Integers, Sequences, FiniteSets, TLC

VARIABLES
    \* ---- validateTransactionSetControlNumbers, applied to one input
    vPayload,     \* the guide JSON handed to the function
    vResult,      \* "pending", or the outcome of the call
    \* ---- loadPartnership, called in both argument orders on one store
    lpSender, lpReceiver,   \* the two partner ids
    lpStash,      \* key -> stored value, for the keys of this pair
    lpWritten,    \* whether the store was written since the start
    lpFwd,        \* outcome of loadPartnership(sender, receiver), or Pending
    lpRev,        \* outcome of loadPartnership(receiver, sender), or Pending
    lpFwdReads,   \* how many keys the forward call has read so far
    lpRevReads,   \* how many keys the reverse call has read so far
    lpFwdFails,   \* the reads (1st, 2nd) that threw during the forward call
    lpRevFails,   \* the reads (1st, 2nd) that threw during the reverse call
    \* ---- the outbound pipeline, one execution
    oPc,          \* the handler's position
    oEvent,       \* the event handed to the handler
    oLedger,      \* the execution ledger: the records written, in order
    oCounters,    \* control number store: segment -> last number issued
    oIssued,      \* the control numbers issued to this execution, in order
    oSenderProfile,   \* the sender's partner profile, or None
    oReceiverProfile, \* the receiver's partner profile, or None
    oPartnership, \* the partnership record loaded, or None
    oGuide,       \* guideSummary, or None
    oType,        \* transactionSetType, or NoId
    oFic,         \* functionalIdentifierCode, or NoId
    oConfig,      \* the selected transaction set config, or None
    oEnvelope,    \* the envelope, or None
    dState,       \* per destination: where its async function stands
    dGuideJson,   \* per destination: its guide JSON, or None
    dTranslated,  \* per destination: the envelope handed to the translator, or None
    dDelivered,   \* per destination: the destination handed to delivery, or None
    dOutcome,     \* per destination: its settled result, or None
    oResult,      \* what the handler returned or rejected with, or Pending
    \* ---- the external poller, one poll target
    pPc,          \* the position of the handler and of pollSftp
    pClock,       \* the current time
    pConfig,      \* the stored poll target config (all but lastPollTime)
    pStoredLastPollTime, \* lastPollTime of the target in the configuration store
    pLastPollTime, \* ftpConfig.lastPollTime of the config object held in memory
    pConn,        \* the module's sftpClient: "closed" or "open"
    pLedger,      \* the execution ledger: the records written, in order
    pListCalls,   \* the sftpClient.list calls of this run: path and result
    pFiles,       \* fileDetails.filesToProcess
    pIndex,       \* the candidate the for loop of pollSftp is at
    pResults,     \* sftpPollingResults
    pGetCalls,    \* remote paths sftpClient.get was called on in this run
    pPutCalls,    \* destination keys written to the bucket in this run
    pDeleteCalls, \* remote paths sftpClient.delete was called on in this run
    pPoll,        \* the poll call: "none", "running", "returned" or "threw"
    pOutcome,     \* what the handler returned or rejected with, or Pending
    \* ---- pollSftp calls in progress at the same time in one module instance
    sRun,         \* per run: its pollSftp call, its position and what is left
    sClient,      \* the module's sftpClient: 0 when closed, else the run whose
                  \* connect established the connection it holds
    sActed        \* the calls made on a connection: run, call, connection

valVars == <<vPayload, vResult>>
lpVars == <<lpSender, lpReceiver, lpStash, lpWritten, lpFwd, lpRev, lpFwdReads,
           lpRevReads, lpFwdFails, lpRevFails>>
destVars == <<dState, dGuideJson, dTranslated, dDelivered, dOutcome>>
resolvedVars == <<oSenderProfile, oReceiverProfile, oPartnership, oType, oGuide,
                  oFic, oConfig, oEnvelope>>
outVars == <<oPc, oEvent, oLedger, oCounters, oIssued, resolvedVars, destVars,
             oResult>>
pollVars == <<pPc, pClock, pConfig, pStoredLastPollTime, pLastPollTime, pConn,
              pLedger, pListCalls, pFiles, pIndex, pResults, pGetCalls, pPutCalls,
              pDeleteCalls, pPoll, pOutcome>>
sharedVars == <<sRun, sClient, sActed>>
vars == <<valVars, lpVars, outVars, pollVars, sharedVars>>

Pending == [kind |-> "pending"]
None == [kind |-> "none"]

(***************************************************************************)
(* Bounds                                                                  *)
(***************************************************************************)
MaxSets == 3        \* transaction sets in one payload
MaxDest == 2        \* destinations of one transaction set config
MaxPrior == 1       \* control numbers issued before the execution starts
MaxFiles == 2       \* entries of a remote listing, names of an explicit list
MaxTime == 2        \* the latest time
MaxRuns == 2        \* pollSftp calls in progress at the same time

(***************************************************************************)
(* JSON values of a transaction set's control number field                 *)
(***************************************************************************)
\* A JavaScript number: NaN, or an integer.
NaN == [isNaN |-> TRUE, n |-> 0]
Finite(n) == [isNaN |-> FALSE, n |-> n]

\* x !== k for a number x and an integer k (NaN differs from everything).
StrictlyDiffers(x, k) == x.isNaN \/ x.n # k

Undefined == [kind |-> "undefined"]
Null == [kind |-> "null"]
Num(n) == [kind |-> "number", n |-> n]
Str(s) == [kind |-> "string", s |-> s]

Digits == {"0", "1", "2"}
Chars == Digits \cup {"x"}

DigitValue(c) == CASE c = "0" -> 0 [] c = "1" -> 1 [] c = "2" -> 2

\* The value of a string of digits in the given base.
RECURSIVE ParseDigits(_, _)
ParseDigits(s, base) ==
    IF s = <<>> THEN 0
    ELSE base * ParseDigits(SubSeq(s, 1, Len(s) - 1), base) + DigitValue(s[Len(s)])

ParseDecimal(s) == ParseDigits(s, 10)

\* A hexadecimal literal: "0x" followed by at least one digit.
IsHexLiteral(s) ==
    /\ Len(s) >= 3
    /\ s[1] = "0"
    /\ s[2] = "x"
    /\ \A i \in 3..Len(s) : s[i] \in Digits

\* JavaScript Number(v) on the values above: a number is itself, a string of
\* decimal digits is its value (the empty string is 0), a hexadecimal literal
\* is its value, any other string and undefined are NaN, null is 0.
ToNumber(v) ==
    CASE v.kind = "number" -> Finite(v.n)
      [] v.kind = "string" ->
            IF \A i \in 1..Len(v.s) : v.s[i] \in Digits
            THEN Finite(ParseDecimal(v.s))
            ELSE IF IsHexLiteral(v.s)
            THEN Finite(ParseDigits(SubSeq(v.s, 3, Len(v.s)), 16))
            ELSE NaN
      [] v.kind = "null" -> Finite(0)
      [] v.kind = "undefined" -> NaN

(***************************************************************************)
(* Guide JSON: a single transaction set object or an array of them         *)
(***************************************************************************)
\* A transaction set: an object whose heading.transaction_set_header_ST may
\* carry an identifier code (_01) and a control number (_02), or null.
TransactionSet(id, ctl) == [kind |-> "object", id |-> id, ctl |-> ctl]
NullSet == [kind |-> "null"]

SingleJson(t) == [isArray |-> FALSE, items |-> <<t>>]
ArrayJson(ts) == [isArray |-> TRUE, items |-> ts]

normalizeGuideJson(guideJson) == guideJson.items

Ok == [kind |-> "ok"]
Throws(what) == [kind |-> "throws", error |-> what]

\* The forEach loop: expectedControlNumber starts at 1 and is incremented
\* after every transaction set that passes; the first mismatch throws.
RECURSIVE ValidateFrom(_, _, _)
ValidateFrom(ts, k, expectedControlNumber) ==
    IF k > Len(ts) THEN Ok
    ELSE IF ts[k].kind = "null" THEN Throws("TypeError")
    ELSE LET controlNumberValue == ToNumber(ts[k].ctl)
         IN  IF StrictlyDiffers(controlNumberValue, expectedControlNumber)
             THEN Throws("invalid control number")
             ELSE ValidateFrom(ts, k + 1, expectedControlNumber + 1)

FirstExpectedControlNumber == 1

StaleExpectedValidate(guideJson) ==
    LET ts == normalizeGuideJson(guideJson)
    IN  IF \A k \in 1..Len(ts) :
              /\ ts[k].kind = "object"
              /\ ~StrictlyDiffers(ToNumber(ts[k].ctl), FirstExpectedControlNumber)
        THEN Ok ELSE Throws("invalid control number")

validateTransactionSetControlNumbers(guideJson) ==
    ValidateFrom(normalizeGuideJson(guideJson), 1, FirstExpectedControlNumber)

\* ---- inputs of the validation specification
Strings == {<<>>} \cup {<<c>> : c \in Chars}
              \cup {<<c, d>> : c \in Digits, d \in Digits}
              \cup {<<"0", "x">>} \cup {<<"0", "x", d>> : d \in Chars}
ControlNumberValues ==
    {Undefined, Null} \cup {Num(n) : n \in 0..(MaxSets + 1)}
                      \cup {Str(s) : s \in Strings}
ValidationSets == {NullSet} \cup {TransactionSet("850", c) : c \in ControlNumberValues}

SeqsUpTo(S, n) == UNION {[1..m -> S] : m \in 0..n}

ValidationPayloads ==
    {SingleJson(t) : t \in ValidationSets}
        \cup {ArrayJson(ts) : ts \in SeqsUpTo(ValidationSets, MaxSets)}

Validate ==
    /\ vResult = Pending
    /\ vResult' = validateTransactionSetControlNumbers(vPayload)
    /\ UNCHANGED <<vPayload, lpVars, outVars, pollVars, sharedVars>>

(***************************************************************************)
(* loadPartnership                                                         *)
(***************************************************************************)
Partners == {"this-is-me", "another-merchant"}

\* `partnership|${a}|${b}`
PartnershipKey(a, b) == <<"partnership", a, b>>

\* What the store holds under a key: nothing (null), a value that is not an
\* object, an object PartnershipSchema rejects, or a valid partnership.
NoValue == [kind |-> "null"]
Scalar == [kind |-> "scalar"]
BadRecord == [kind |-> "object", valid |-> FALSE, record |-> "bad"]
Partnership(name) == [kind |-> "object", valid |-> TRUE, record |-> name]
StoredValues == {NoValue, Scalar, BadRecord, Partnership("A"), Partnership("B")}

Found(name) == [kind |-> "found", record |-> name]
NotFound == [kind |-> "throws", error |-> "No partnership found"]

\* const keysToCheck = [...] with the one key of the caller's own direction.
ForwardKeyOnly(sendingPartnerId, receivingPartnerId) ==
    <<PartnershipKey(sendingPartnerId, receivingPartnerId)>>

\* const keysToCheck = [`partnership|${sendingPartnerId}|${receivingPartnerId}`,
\*                      `partnership|${receivingPartnerId}|${sendingPartnerId}`]
keysToCheck(sendingPartnerId, receivingPartnerId) ==
    <<PartnershipKey(sendingPartnerId, receivingPartnerId),
      PartnershipKey(receivingPartnerId, sendingPartnerId)>>

\* One turn of the for loop over keysToCheck, at the settling of its awaited
\* read: the read throws, or returns what the store holds under the key at
\* that time. A value that is an object and that PartnershipSchema accepts is
\* the partnership and ends the loop; a read that throws, a value that is not
\* an object and a value the schema rejects (the parse throws) are caught or
\* passed over and leave the partnership undefined (Pending).
TryKey(stash, key, readThrows) ==
    LET value == stash[key]
    IN  IF ~readThrows /\ value.kind = "object" /\ value.valid
        THEN Found(value.record)
        ELSE Pending

\* Where the call stands after the i-th of n keys: the partnership found is
\* returned; after the last key an undefined partnership throws; else the
\* loop awaits the read of the next key.
AfterKey(partnership, i, n) ==
    IF partnership # Pending THEN partnership
    ELSE IF i = n THEN NotFound
    ELSE Pending

PairKeys(a, b) == {PartnershipKey(a, b), PartnershipKey(b, a)}

\* loadPartnership(sender, receiver): the awaited read of its next key
\* settles.
LoadForward ==
    /\ lpFwd = Pending
    /\ LET keys == keysToCheck(lpSender, lpReceiver)
           i == lpFwdReads + 1
       IN  \E readThrows \in BOOLEAN :
              /\ lpFwdReads' = i
              /\ lpFwdFails' = IF readThrows THEN lpFwdFails \cup {i}
                               ELSE lpFwdFails
              /\ lpFwd' = AfterKey(TryKey(lpStash, keys[i], readThrows), i,
                                   Len(keys))
    /\ UNCHANGED <<lpSender, lpReceiver, lpStash, lpWritten, lpRev, lpRevReads,
                   lpRevFails, valVars, outVars, pollVars, sharedVars>>

\* loadPartnership(receiver, sender): the awaited read of its next key
\* settles.
LoadReverse ==
    /\ lpRev = Pending
    /\ LET keys == keysToCheck(lpReceiver, lpSender)
           i == lpRevReads + 1
       IN  \E readThrows \in BOOLEAN :
              /\ lpRevReads' = i
              /\ lpRevFails' = IF readThrows THEN lpRevFails \cup {i}
                               ELSE lpRevFails
              /\ lpRev' = AfterKey(TryKey(lpStash, keys[i], readThrows), i,
                                   Len(keys))
    /\ UNCHANGED <<lpSender, lpReceiver, lpStash, lpWritten, lpFwd, lpFwdReads,
                   lpFwdFails, valVars, outVars, pollVars, sharedVars>>

\* savePartnership(key, partnership): the record is stored under the key.
savePartnership(stash, key, partnership) == [stash EXCEPT ![key] = partnership]

\* The partnership createSampleStashRecords builds (usage indicator "T") and
\* the key it saves it under.
SamplePartnership == Partnership("A")
SamplePartnershipKey == PartnershipKey("this-is-me", "another-merchant")

\* createSampleStashRecords(): the sample partnership is saved under
\* partnership|this-is-me|another-merchant. (Its two lookup records are
\* written under keys that loadPartnership does not read.)
createSampleStashRecords ==
    /\ SamplePartnershipKey \in DOMAIN lpStash
    /\ lpStash' = savePartnership(lpStash, SamplePartnershipKey, SamplePartnership)
    /\ lpWritten' = TRUE
    /\ UNCHANGED <<lpSender, lpReceiver, lpFwd, lpRev, lpFwdReads, lpRevReads,
                   lpFwdFails, lpRevFails, valVars, outVars, pollVars, sharedVars>>

\* Another client of the configuration store sets or deletes the value of a
\* key while the calls are in progress.
StashWrite(key, value) ==
    /\ lpStash' = [lpStash EXCEPT ![key] = value]
    /\ lpWritten' = TRUE
    /\ UNCHANGED <<lpSender, lpReceiver, lpFwd, lpRev, lpFwdReads, lpRevReads,
                   lpFwdFails, lpRevFails, valVars, outVars, pollVars, sharedVars>>

(***************************************************************************)
(* The outbound pipeline: data                                             *)
(***************************************************************************)
\* An absent (undefined) string field: metadata.transactionSet, an
\* identifier code, a mappingId.
NoId == "undefined"

Value(v) == [kind |-> "ok", value |-> v]

\* The reduce over the normalized payload: the set of identifier codes that
\* are present; anything but exactly one is an error.
UniqueTransactionSets(ts) ==
    {ts[k].id : k \in {j \in 1..Len(ts) : ts[j].id # NoId}}

extractTransactionSetTypeFromGuideJson(guideJson) ==
    LET normalizedGuideJson == normalizeGuideJson(guideJson)
    IN  IF \E k \in 1..Len(normalizedGuideJson) : normalizedGuideJson[k].kind = "null"
        THEN Throws("TypeError")
        ELSE LET uniqueTransactionSets == UniqueTransactionSets(normalizedGuideJson)
             IN  IF Cardinality(uniqueTransactionSets) # 1
                 THEN Throws("unable to determine transaction set type from input")
                 ELSE Value(CHOOSE id \in uniqueTransactionSets : TRUE)

\* event.metadata.transactionSet ?? extractTransactionSetTypeFromGuideJson(payload)
determineTransactionSetType(event) ==
    IF event.transactionSet # NoId
    THEN Value(event.transactionSet)
    ELSE extractTransactionSetTypeFromGuideJson(event.payload)

\* Static table of functional identifier codes; an unknown type throws.
lookupFunctionalIdentifierCode(transactionSetType) ==
    CASE transactionSetType = "850" -> Value("PO")
      [] transactionSetType = "855" -> Value("PR")
      [] OTHER -> Throws("unknown transaction set type")

\* The execution ledger.
recordNewExecution(ledger) == Append(ledger, "start")
markExecutionAsSuccessful(ledger) == Append(ledger, "success")
markExecutionAsFailure(ledger) == Append(ledger, "failure")
FailureResponse(error, details) ==
    [kind |-> "failure", error |-> error, details |-> details]

\* The handler's promise rejects: a ledger call rejected outside the try
\* block, or failedExecution itself rejected.
HandlerThrew(error) == [kind |-> "threw", error |-> error]

\* A destination of a transaction set config. `path` is the bucket path of a
\* bucket destination (the url of a webhook), as a sequence of text pieces.
DestinationEntry(type, mappingId) ==
    [destination |-> [type |-> type, path |-> <<"out">>], mappingId |-> mappingId]
DestinationEntries ==
    {DestinationEntry(t, m) : t \in {"bucket", "webhook"}, m \in {NoId, "m1"}}

\* The usage indicator of the configs of a partnership record.
UsageOf(record) == IF record = "A" THEN "T" ELSE "P"

\* An object path that leaves the control number out.
TypeOnlyObjectPath(path, isaControlNumber, transactionSetType) ==
    path \o <<"/", transactionSetType, ".edi">>

\* `${destination.path}/${isaControlNumber}-${transactionSetType}.edi`
BucketObjectPath(path, isaControlNumber, transactionSetType) ==
    path \o <<"/", isaControlNumber, "-", transactionSetType, ".edi">>

Segments == {"ISA", "GS"}

ControlNumber(segment, usageIndicatorCode, sendingPartnerId, receivingPartnerId, n) ==
    [segment |-> segment, usageIndicatorCode |-> usageIndicatorCode,
     sendingPartnerId |-> sendingPartnerId,
     receivingPartnerId |-> receivingPartnerId, number |-> n]

\* What loadPartnerProfile returns for a partner.
PartnerProfile(partnerId) ==
    [partnerInterchangeQualifier |-> "ZZ", partnerInterchangeId |-> partnerId,
     partnerApplicationId |-> partnerId]

\* The envelope; its dates and times are left out.
Envelope(senderProfile, receiverProfile, usageIndicatorCode, fic, isa, gs) ==
    [interchangeHeader |->
        [senderQualifier |-> senderProfile.partnerInterchangeQualifier,
         senderId |-> senderProfile.partnerInterchangeId,
         receiverQualifier |-> receiverProfile.partnerInterchangeQualifier,
         receiverId |-> receiverProfile.partnerInterchangeId,
         controlNumber |-> isa,
         usageIndicatorCode |-> usageIndicatorCode],
     groupHeader |->
        [functionalIdentifierCode |-> fic,
         applicationSenderCode |-> senderProfile.partnerApplicationId,
         applicationReceiverCode |-> receiverProfile.partnerApplicationId,
         controlNumber |-> gs]]

Fulfilled(value) == [status |-> "fulfilled", value |-> value]
Rejected(reason) == [status |-> "rejected", reason |-> reason]

\* The reduce that partitions the settled results by status, in order; each
\* group keeps the result without its status.
RECURSIVE GroupByStatus(_, _, _)
GroupByStatus(deliveryResults, k, groupedResults) ==
    IF k > Len(deliveryResults) THEN groupedResults
    ELSE LET r == deliveryResults[k]
         IN  GroupByStatus(deliveryResults, k + 1,
                 IF r.status = "fulfilled"
                 THEN [groupedResults EXCEPT
                          !.fulfilled = Append(@, [value |-> r.value])]
                 ELSE [groupedResults EXCEPT
                          !.rejected = Append(@, [reason |-> r.reason])])

\* As Promise.all would report: the first rejection alone, or all values.
FirstRejectionOnly(deliveryResults) ==
    LET all == GroupByStatus(deliveryResults, 1,
                             [fulfilled |-> <<>>, rejected |-> <<>>])
    IN  IF all.rejected = <<>> THEN all
        ELSE [fulfilled |-> <<>>, rejected |-> <<all.rejected[1]>>]

DeliveryResultsByStatus(deliveryResults) ==
    GroupByStatus(deliveryResults, 1, [fulfilled |-> <<>>, rejected |-> <<>>])

\* ---- inputs of the outbound specification
OutboundPayloads ==
    { SingleJson(TransactionSet("850", Str(<<"1">>))),
      ArrayJson(<<TransactionSet("850", Num(1)), TransactionSet("850", Num(2))>>),
      ArrayJson(<<TransactionSet("850", Num(1)), TransactionSet("855", Num(2))>>),
      ArrayJson(<<TransactionSet("850", Num(2)), TransactionSet("850", Num(1))>>),
      ArrayJson(<<TransactionSet(NoId, Num(1))>>) }

MappingOutputs ==
    { SingleJson(TransactionSet("850", Num(1))),
      SingleJson(TransactionSet("850", Num(2))) }

OutboundEvent(valid, transactionSet, payload) ==
    [valid |-> valid, sendingPartnerId |-> "this-is-me", receivingPartnerId |-> "another-merchant",
     transactionSet |-> transactionSet, payload |-> payload]

OutboundEvents ==
    {OutboundEvent(FALSE, NoId, ArrayJson(<<>>))}
        \cup {OutboundEvent(TRUE, m, p) : m \in {NoId, "850", "000"},
                                         p \in OutboundPayloads}

OutboundStashes ==
    { [k \in PairKeys("this-is-me", "another-merchant") |-> NoValue],
      [k \in PairKeys("this-is-me", "another-merchant") |->
          IF k = PartnershipKey("this-is-me", "another-merchant") THEN Partnership("A") ELSE NoValue],
      [k \in PairKeys("this-is-me", "another-merchant") |->
          IF k = PartnershipKey("another-merchant", "this-is-me") THEN Partnership("B") ELSE NoValue] }

(***************************************************************************)
(* The outbound pipeline: handler                                          *)
(***************************************************************************)
\* A catch that returns the failure without recording it.
FatalUnrecorded(error) ==
    /\ oPc' = "returned"
    /\ oLedger' = oLedger
    /\ oResult' = FailureResponse(error, None)

\* catch (e) { return failedExecution(executionId, error) }: the failure
\* record is written and the structured failure returned, or the ledger call
\* rejects and the handler rejects with it, nothing recorded
Fatal(error) ==
    \/ /\ oPc' = "returned"
       /\ oLedger' = markExecutionAsFailure(oLedger)
       /\ oResult' = FailureResponse(error, None)
    \/ /\ oPc' = "rejected"
       /\ oLedger' = oLedger
       /\ oResult' = HandlerThrew("failure not recorded")

Proceed(next) ==
    /\ oPc' = next
    /\ UNCHANGED <<oLedger, oResult>>

\* await recordNewExecution(executionId, event), the first statement of the
\* try block: the start record is written, or the call rejects and the catch
\* reports the failure
RecordNewExecution ==
    /\ oPc = "start"
    /\ \/ /\ oLedger' = recordNewExecution(oLedger)
          /\ oPc' = "parse"
          /\ UNCHANGED oResult
       \/ Fatal("execution not recorded")
    /\ UNCHANGED <<oEvent, oCounters, oIssued, resolvedVars, destVars>>
    /\ UNCHANGED <<valVars, lpVars, pollVars, sharedVars>>

\* OutboundEventSchema.parse(event)
ParseEvent ==
    /\ oPc = "parse"
    /\ IF oEvent.valid THEN Proceed("senderProfile") ELSE Fatal("malformed event")
    /\ UNCHANGED <<oEvent, oCounters, oIssued, resolvedVars, destVars>>
    /\ UNCHANGED <<valVars, lpVars, pollVars, sharedVars>>

\* The ISA control number taken before the sender's profile is looked up.
IssueBeforeSenderProfile ==
    /\ oPc = "senderProfile"
    /\ oCounters' = [oCounters EXCEPT !["ISA"] = @ + 1]
    /\ oIssued' = Append(oIssued,
           ControlNumber("ISA", "T", oEvent.sendingPartnerId,
                         oEvent.receivingPartnerId, oCounters["ISA"] + 1))
    /\ \/ /\ oSenderProfile' = PartnerProfile(oEvent.sendingPartnerId)
          /\ Proceed("receiverProfile")
       \/ /\ Fatal("sender profile not found")
          /\ UNCHANGED oSenderProfile
    /\ UNCHANGED <<oEvent, oReceiverProfile, oPartnership,
                   oType, oGuide, oFic, oConfig, oEnvelope, destVars>>
    /\ UNCHANGED <<valVars, lpVars, pollVars, sharedVars>>

\* await loadPartnerProfile(sendingPartnerId)
LoadSenderProfile ==
    /\ oPc = "senderProfile"
    /\ \/ /\ oSenderProfile' = PartnerProfile(oEvent.sendingPartnerId)
          /\ Proceed("receiverProfile")
       \/ /\ Fatal("sender profile not found")
          /\ UNCHANGED oSenderProfile
    /\ UNCHANGED <<oEvent, oCounters, oIssued, oReceiverProfile, oPartnership,
                   oType, oGuide, oFic, oConfig, oEnvelope, destVars>>
    /\ UNCHANGED <<valVars, lpVars, pollVars, sharedVars>>

\* await loadPartnerProfile(receivingPartnerId)
LoadReceiverProfile ==
    /\ oPc = "receiverProfile"
    /\ \/ /\ oReceiverProfile' = PartnerProfile(oEvent.receivingPartnerId)
          /\ Proceed("partnership")
       \/ /\ Fatal("receiver profile not found")
          /\ UNCHANGED oReceiverProfile
    /\ UNCHANGED <<oEvent, oCounters, oIssued, oSenderProfile, oPartnership,
                   oType, oGuide, oFic, oConfig, oEnvelope, destVars>>
    /\ UNCHANGED <<valVars, lpVars, pollVars, sharedVars>>

\* await loadPartnership(sendingPartnerId, receivingPartnerId): the awaited
\* read of its next key settles, the sender|receiver key at "partnership" and
\* the receiver|sender key at "partnershipReverse"
ResolvePartnership ==
    /\ oPc \in {"partnership", "partnershipReverse"}
    /\ LET keys == keysToCheck(oEvent.sendingPartnerId, oEvent.receivingPartnerId)
           i == IF oPc = "partnership" THEN 1 ELSE 2
       IN  \E readThrows \in BOOLEAN :
              LET r == AfterKey(TryKey(lpStash, keys[i], readThrows), i, Len(keys))
              IN  IF r = Pending
                  THEN /\ Proceed("partnershipReverse")
                       /\ UNCHANGED oPartnership
                  ELSE IF r.kind = "found"
                  THEN /\ oPartnership' = r
                       /\ Proceed("transactionSetType")
                  ELSE /\ Fatal(r.error)
                       /\ UNCHANGED oPartnership
    /\ UNCHANGED <<oEvent, oCounters, oIssued, oSenderProfile, oReceiverProfile,
                   oType, oGuide, oFic, oConfig, oEnvelope, destVars>>
    /\ UNCHANGED <<valVars, lpVars, pollVars, sharedVars>>

\* createSampleStashRecords() saves the sample partnership while the handler
\* is between the reads of the two keys. (A write at any other time is the
\* same, to this execution, as a different store at its start.)
SampleSavedBetweenReads ==
    /\ oPc = "partnershipReverse"
    /\ createSampleStashRecords

\* Another client of the store deletes the record under the receiver|sender
\* key while the handler is between the reads of the two keys.
ReverseKeyDeletedBetweenReads ==
    /\ oPc = "partnershipReverse"
    /\ StashWrite(PartnershipKey(oEvent.receivingPartnerId,
                                 oEvent.sendingPartnerId), NoValue)

\* determineTransactionSetType(event)
DetermineTransactionSetType ==
    /\ oPc = "transactionSetType"
    /\ LET r == determineTransactionSetType(oEvent)
       IN  IF r.kind = "ok"
           THEN /\ oType' = r.value
                /\ Proceed("configs")
           ELSE /\ Fatal(r.error)
                /\ UNCHANGED oType
    /\ UNCHANGED <<oEvent, oCounters, oIssued, oSenderProfile, oReceiverProfile,
                   oPartnership, oGuide, oFic, oConfig, oEnvelope, destVars>>
    /\ UNCHANGED <<valVars, lpVars, pollVars, sharedVars>>

\* getTransactionSetConfigsForPartnership({...})
GetTransactionSetConfigs ==
    /\ oPc = "configs"
    /\ \/ Proceed("guide")
       \/ Fatal("no transaction set configs")
    /\ UNCHANGED <<oEvent, oCounters, oIssued, resolvedVars, destVars>>
    /\ UNCHANGED <<valVars, lpVars, pollVars, sharedVars>>

\* await resolveGuide({guideIdsForPartnership, transactionSetType})
ResolveGuide ==
    /\ oPc = "guide"
    /\ \/ /\ oGuide' = [guideId |-> "guide"]
          /\ Proceed("config")
       \/ /\ Fatal("guide not resolved")
          /\ UNCHANGED oGuide
    /\ UNCHANGED <<oEvent, oCounters, oIssued, oSenderProfile, oReceiverProfile,
                   oPartnership, oType, oFic, oConfig, oEnvelope, destVars>>
    /\ UNCHANGED <<valVars, lpVars, pollVars, sharedVars>>

\* resolveTransactionSetConfig(transactionSetConfigs, guideSummary.guideId):
\* the one config of the partnership that uses the guide, with its destinations
ResolveTransactionSetConfig ==
    /\ oPc = "config"
    /\ \/ /\ \E ds \in SeqsUpTo(DestinationEntries, MaxDest) :
                oConfig' = [usageIndicatorCode |-> UsageOf(oPartnership.record),
                            destinations |-> ds]
          /\ Proceed("functionalIdentifierCode")
       \/ /\ Fatal("transaction set config not resolved")
          /\ UNCHANGED oConfig
    /\ UNCHANGED <<oEvent, oCounters, oIssued, oSenderProfile, oReceiverProfile,
                   oPartnership, oType, oGuide, oFic, oEnvelope, destVars>>
    /\ UNCHANGED <<valVars, lpVars, pollVars, sharedVars>>

\* lookupFunctionalIdentifierCode(transactionSetType)
LookupFunctionalIdentifierCode ==
    /\ oPc = "functionalIdentifierCode"
    /\ LET r == lookupFunctionalIdentifierCode(oType)
       IN  IF r.kind = "ok"
           THEN /\ oFic' = r.value
                /\ Proceed("isa")
           ELSE /\ Fatal(r.error)
                /\ UNCHANGED oFic
    /\ UNCHANGED <<oEvent, oCounters, oIssued, oSenderProfile, oReceiverProfile,
                   oPartnership, oType, oGuide, oConfig, oEnvelope, destVars>>
    /\ UNCHANGED <<valVars, lpVars, pollVars, sharedVars>>

\* A control number issued for the segment and once more.
IssueControlNumberTwice(segment) ==
    /\ oCounters' = [oCounters EXCEPT ![segment] = @ + 2]
    /\ oIssued' = oIssued \o
           <<ControlNumber(segment, oConfig.usageIndicatorCode,
                           oEvent.sendingPartnerId, oEvent.receivingPartnerId,
                           oCounters[segment] + 1),
             ControlNumber(segment, oConfig.usageIndicatorCode,
                           oEvent.sendingPartnerId, oEvent.receivingPartnerId,
                           oCounters[segment] + 2)>>

\* generateControlNumber({segment, usageIndicatorCode, sendingPartnerId,
\* receivingPartnerId}): the next number of the scope
IssueControlNumber(segment) ==
    /\ oCounters' = [oCounters EXCEPT ![segment] = @ + 1]
    /\ oIssued' = Append(oIssued,
           ControlNumber(segment, oConfig.usageIndicatorCode,
                         oEvent.sendingPartnerId, oEvent.receivingPartnerId,
                         oCounters[segment] + 1))

\* const isaControlNumber = await generateControlNumber({segment: "ISA", ...})
GenerateIsaControlNumber ==
    /\ oPc = "isa"
    /\ \/ /\ IssueControlNumber("ISA")
          /\ Proceed("gs")
       \/ /\ Fatal("control number not issued")
          /\ UNCHANGED <<oCounters, oIssued>>
    /\ UNCHANGED <<oEvent, resolvedVars, destVars>>
    /\ UNCHANGED <<valVars, lpVars, pollVars, sharedVars>>

\* A GS step whose failure gives the ISA control number back.
GenerateGsReturnsIsaOnFailure ==
    /\ oPc = "gs"
    /\ \/ /\ IssueControlNumber("GS")
          /\ oEnvelope' = Envelope(oSenderProfile, oReceiverProfile,
                                   oConfig.usageIndicatorCode, oFic,
                                   oIssued[1].number, oCounters["GS"] + 1)
          /\ Proceed("fanOut")
       \/ /\ Fatal("control number not issued")
          /\ oCounters' = [oCounters EXCEPT !["ISA"] = @ - 1]
          /\ UNCHANGED <<oIssued, oEnvelope>>
    /\ UNCHANGED <<oEvent, oSenderProfile, oReceiverProfile, oPartnership, oType,
                   oGuide, oFic, oConfig, destVars>>
    /\ UNCHANGED <<valVars, lpVars, pollVars, sharedVars>>

\* const gsControlNumber = await generateControlNumber({segment: "GS", ...});
\* then the envelope is built from the profiles and the two numbers
GenerateGsControlNumber ==
    /\ oPc = "gs"
    /\ \/ /\ IssueControlNumber("GS")
          /\ oEnvelope' = Envelope(oSenderProfile, oReceiverProfile,
                                   oConfig.usageIndicatorCode, oFic,
                                   oIssued[1].number, oCounters["GS"] + 1)
          /\ Proceed("fanOut")
       \/ /\ Fatal("control number not issued")
          /\ UNCHANGED <<oCounters, oIssued, oEnvelope>>
    /\ UNCHANGED <<oEvent, oSenderProfile, oReceiverProfile, oPartnership, oType,
                   oGuide, oFic, oConfig, destVars>>
    /\ UNCHANGED <<valVars, lpVars, pollVars, sharedVars>>

(***************************************************************************)
(* The outbound pipeline: fan-out over the destinations                    *)
(***************************************************************************)
DestinationRun(state, guideJson, translated, outcome) ==
    [state |-> state, guideJson |-> guideJson, translated |-> translated,
     outcome |-> outcome]

\* A destination's async function that translates without validating.
AfterGuideJsonUnvalidated(guideJson, envelope) ==
    DestinationRun("translating", guideJson, envelope, None)

\* One destination's async function from its guide JSON up to its next await:
\* validateTransactionSetControlNumbers(guideJson), then the call of
\* translateJsonToEdi(guideJson, guideId, envelope).
AfterGuideJson(guideJson, envelope) ==
    LET v == validateTransactionSetControlNumbers(guideJson)
    IN  IF v.kind = "ok"
        THEN DestinationRun("translating", guideJson, envelope, None)
        ELSE DestinationRun("rejected", guideJson, None, Rejected(v.error))

\* One destination's async function from its call up to its first await.
StartDestination(entry, payload, envelope) ==
    IF entry.mappingId # NoId
    THEN DestinationRun("mapping", None, None, None)
    ELSE AfterGuideJson(payload, envelope)

Settled(state) == state \in {"fulfilled", "rejected"}

\* transactionSetConfig.destinations.map(async ...) handed to
\* Promise.allSettled: every async function runs up to its first await.
FanOut ==
    /\ oPc = "fanOut"
    /\ LET n == Len(oConfig.destinations)
           run == [i \in 1..n |->
                      StartDestination(oConfig.destinations[i], oEvent.payload,
                                       oEnvelope)]
       IN  /\ dState' = [i \in 1..n |-> run[i].state]
           /\ dGuideJson' = [i \in 1..n |-> run[i].guideJson]
           /\ dTranslated' = [i \in 1..n |-> run[i].translated]
           /\ dOutcome' = [i \in 1..n |-> run[i].outcome]
           /\ dDelivered' = [i \in 1..n |-> None]
    /\ Proceed("settling")
    /\ UNCHANGED <<oEvent, oCounters, oIssued, resolvedVars>>
    /\ UNCHANGED <<valVars, lpVars, pollVars, sharedVars>>

\* await invokeMapping(mappingId, outboundEvent.payload) settles
MappingSettles(i) ==
    /\ oPc = "settling"
    /\ dState[i] = "mapping"
    /\ \E run \in {AfterGuideJson(g, oEnvelope) : g \in MappingOutputs}
              \cup {DestinationRun("rejected", None, None,
                                   Rejected("mapping failed"))} :
          /\ dState' = [dState EXCEPT ![i] = run.state]
          /\ dGuideJson' = [dGuideJson EXCEPT ![i] = run.guideJson]
          /\ dTranslated' = [dTranslated EXCEPT ![i] = run.translated]
          /\ dOutcome' = [dOutcome EXCEPT ![i] = run.outcome]
    /\ UNCHANGED <<oPc, oEvent, oLedger, oCounters, oIssued, resolvedVars,
                   dDelivered, oResult>>
    /\ UNCHANGED <<valVars, lpVars, pollVars, sharedVars>>

\* The destination handed to deliverToDestination: a bucket destination gets
\* its path extended in place, any other destination is left as it is.
DeliveryTarget(destination, isaControlNumber, transactionSetType) ==
    IF destination.type = "bucket"
    THEN [destination EXCEPT
             !.path = BucketObjectPath(@, isaControlNumber, transactionSetType)]
    ELSE destination

\* await translateJsonToEdi(...) settles; on success the destination path is
\* set and deliverToDestination(destination, translation) is called
TranslationSettles(i) ==
    /\ oPc = "settling"
    /\ dState[i] = "translating"
    /\ \/ LET target == DeliveryTarget(oConfig.destinations[i].destination,
                                       oIssued[1].number, oType)
          IN  /\ oConfig' = [oConfig EXCEPT !.destinations[i].destination = target]
              /\ dDelivered' = [dDelivered EXCEPT ![i] = target]
              /\ dState' = [dState EXCEPT ![i] = "delivering"]
              /\ UNCHANGED dOutcome
       \/ /\ dState' = [dState EXCEPT ![i] = "rejected"]
          /\ dOutcome' = [dOutcome EXCEPT ![i] = Rejected("translation failed")]
          /\ UNCHANGED <<oConfig, dDelivered>>
    /\ UNCHANGED <<oPc, oEvent, oLedger, oCounters, oIssued, oSenderProfile,
                   oReceiverProfile, oPartnership, oType, oGuide, oFic, oEnvelope,
                   dGuideJson, dTranslated, oResult>>
    /\ UNCHANGED <<valVars, lpVars, pollVars, sharedVars>>

\* await deliverToDestination(destination, translation) settles
DeliverySettles(i) ==
    /\ oPc = "settling"
    /\ dState[i] = "delivering"
    /\ \/ /\ dState' = [dState EXCEPT ![i] = "fulfilled"]
          /\ dOutcome' = [dOutcome EXCEPT
                             ![i] = Fulfilled([destination |-> dDelivered[i]])]
       \/ /\ dState' = [dState EXCEPT ![i] = "rejected"]
          /\ dOutcome' = [dOutcome EXCEPT ![i] = Rejected("delivery failed")]
    /\ UNCHANGED <<oPc, oEvent, oLedger, oCounters, oIssued, resolvedVars,
                   dGuideJson, dTranslated, dDelivered, oResult>>
    /\ UNCHANGED <<valVars, lpVars, pollVars, sharedVars>>

AllSettled == \A i \in 1..Len(dState) : Settled(dState[i])

\* Promise.allSettled resolved and some destination rejected:
\* return failedExecution(executionId, error, deliveryResultsByStatus), which
\* records and returns the failure, or rejects
ReportFailedDeliveries ==
    /\ oPc = "settling"
    /\ AllSettled
    /\ LET deliveryResultsByStatus == DeliveryResultsByStatus(dOutcome)
           rejectedCount == Len(deliveryResultsByStatus.rejected)
       IN  /\ rejectedCount > 0
           /\ \/ /\ oPc' = "returned"
                 /\ oLedger' = markExecutionAsFailure(oLedger)
                 /\ oResult' =
                       FailureResponse("some deliveries were not successful",
                                       deliveryResultsByStatus)
              \/ /\ oPc' = "rejected"
                 /\ oLedger' = oLedger
                 /\ oResult' = HandlerThrew("failure not recorded")
    /\ UNCHANGED <<oEvent, oCounters, oIssued, resolvedVars, destVars>>
    /\ UNCHANGED <<valVars, lpVars, pollVars, sharedVars>>

\* Success reported as soon as some destination fulfilled.
ReturnWhenSomeFulfilled ==
    /\ oPc = "settling"
    /\ AllSettled
    /\ LET deliveryResultsByStatus == DeliveryResultsByStatus(dOutcome)
       IN  /\ \/ Len(deliveryResultsByStatus.fulfilled) > 0
              \/ Len(deliveryResultsByStatus.rejected) = 0
           /\ oLedger' = markExecutionAsSuccessful(oLedger)
           /\ oResult' =
                 [kind |-> "success", statusCode |-> 200,
                  deliveryResults |->
                     [k \in 1..Len(deliveryResultsByStatus.fulfilled) |->
                         deliveryResultsByStatus.fulfilled[k].value]]
    /\ oPc' = "returned"
    /\ UNCHANGED <<oEvent, oCounters, oIssued, resolvedVars, destVars>>
    /\ UNCHANGED <<valVars, lpVars, pollVars, sharedVars>>

\* Promise.allSettled resolved and no destination rejected:
\* await markExecutionAsSuccessful(executionId); return {statusCode: 200, ...};
\* when the call rejects the catch reports the failure
ReturnDeliveryResults ==
    /\ oPc = "settling"
    /\ AllSettled
    /\ LET deliveryResultsByStatus == DeliveryResultsByStatus(dOutcome)
           rejectedCount == Len(deliveryResultsByStatus.rejected)
       IN  /\ rejectedCount = 0
           /\ \/ /\ oLedger' = markExecutionAsSuccessful(oLedger)
                 /\ oResult' =
                       [kind |-> "success", statusCode |-> 200,
                        deliveryResults |->
                           [k \in 1..Len(deliveryResultsByStatus.fulfilled) |->
                               deliveryResultsByStatus.fulfilled[k].value]]
                 /\ oPc' = "returned"
              \/ Fatal("execution not marked successful")
    /\ UNCHANGED <<oEvent, oCounters, oIssued, resolvedVars, destVars>>
    /\ UNCHANGED <<valVars, lpVars, pollVars, sharedVars>>

(***************************************************************************)
(* The external poller: data                                               *)
(***************************************************************************)
\* lastPollTime: a Date, or not set.
Unset == [set |-> FALSE, t |-> 0]
At(t) == [set |-> TRUE, t |-> t]

Times == 0..MaxTime

EmptyResults ==
    [processedFiles |-> <<>>, skippedItems |-> <<>>, processingErrors |-> <<>>]

\* A remote entry as sftpClient.list reports it: type "-" is a plain file;
\* modifyTime may be missing.
FileInfo(name, type, hasModifyTime, modifyTime) ==
    [name |-> name, type |-> type, hasModifyTime |-> hasModifyTime,
     modifyTime |-> modifyTime]

RemotePath == <<"remote">>

\* path.normalize(`${remotePath}/${name}`)
RemoteFilePath(name) == <<"remote", name>>

\* `${ftpConfig.destinationPath}/${file.name}`
DestinationKey(name) == <<"destination", name>>

SkippedItem(path, reason) == [path |-> path, reason |-> reason]
ProcessingError(path, errorMessage) == [path |-> path, errorMessage |-> errorMessage]

\* A last poll timestamp that is the latest time when lastPollTime is unset.
UnsetIsLatest(lastPollTime) ==
    IF lastPollTime.set /\ lastPollTime.t # 0 THEN lastPollTime.t
    ELSE MaxTime + 1

\* ftpConfig.lastPollTime?.getTime() || 0
LastPollTimestamp(lastPollTime) ==
    IF lastPollTime.set /\ lastPollTime.t # 0 THEN lastPollTime.t ELSE 0

\* file.modifyTime || Date.now()
RemoteFileTimestamp(file, now) ==
    IF file.hasModifyTime /\ file.modifyTime # 0 THEN file.modifyTime ELSE now

\* remoteFileTimestamp < lastPollTimestamp
IsStale(file, now, lastPollTime) ==
    RemoteFileTimestamp(file, now) < LastPollTimestamp(lastPollTime)

\* The reduce of getAllFileDetailsForPath: plain files are to be processed,
\* everything else is skipped as "not a file".
RECURSIVE SplitDirectoryContents(_, _, _)
SplitDirectoryContents(directoryContents, k, details) ==
    IF k > Len(directoryContents) THEN details
    ELSE LET currentFile == directoryContents[k]
         IN  SplitDirectoryContents(directoryContents, k + 1,
                 IF currentFile.type = "-"
                 THEN [details EXCEPT !.filesToProcess = Append(@, currentFile)]
                 ELSE [details EXCEPT !.skippedItems =
                          Append(@, SkippedItem(RemoteFilePath(currentFile.name),
                                                "not a file"))])

\* A listing filter that drops what is not a plain file without recording it.
DropNonFiles(directoryContents) ==
    [filesToProcess |-> SelectSeq(directoryContents, LAMBDA f : f.type = "-"),
     skippedItems |-> <<>>]

getAllFileDetailsForPath(directoryContents) ==
    SplitDirectoryContents(directoryContents, 1,
                           [filesToProcess |-> <<>>, skippedItems |-> <<>>])

\* A poll target config without its lastPollTime. remoteFiles is empty when
\* the config names no files.
PollerConfig(protocol, remoteFiles, deleteAfterProcessing) ==
    [exists |-> TRUE, protocol |-> protocol, remoteFiles |-> remoteFiles,
     deleteAfterProcessing |-> deleteAfterProcessing]

\* ftpConfigMap[ftpConfigId] is undefined.
NoPollerConfig ==
    [exists |-> FALSE, protocol |-> "undefined", remoteFiles |-> <<>>,
     deleteAfterProcessing |-> FALSE]

\* A handler map with an entry for every protocol a config can name.
EveryProtocolSupported == {"ftp", "sftp", "http"}

\* Object.keys(pollerHandlerMap)
SupportedProtocols == {"ftp", "sftp"}

PollResults(results) == [kind |-> "results", results |-> results]

\* ---- inputs of the poller specification
\* The entries a listing can report under a name.
RemoteEntries(name) ==
    {FileInfo(name, "-", TRUE, t) : t \in Times}
        \cup {FileInfo(name, "-", FALSE, 0), FileInfo(name, "d", TRUE, 0)}

\* Directory listings: the i-th entry is named i.
DirectoryListings ==
    UNION {{l \in [1..n -> UNION {RemoteEntries(i) : i \in 1..n}] :
               \A i \in 1..n : l[i].name = i} : n \in 0..MaxFiles}

\* What listing one named file can return: no match, one match, two matches.
NamedListings(name) ==
    {<<>>} \cup {<<e>> : e \in RemoteEntries(name)}
           \cup {<<FileInfo(name, "-", TRUE, 0), FileInfo(name, "-", TRUE, 0)>>}

\* Explicit lists name distinct files: 1, 2, ...
PollerConfigs ==
    {NoPollerConfig, PollerConfig("http", <<>>, FALSE),
     PollerConfig("ftp", <<>>, FALSE)}
        \cup {PollerConfig("sftp", [i \in 1..n |-> i], d) :
                 n \in 0..MaxFiles, d \in BOOLEAN}

\* What the ftp implementation can return.
FtpResults ==
    { EmptyResults,
      [EmptyResults EXCEPT !.processedFiles = <<RemoteFilePath(1)>>],
      [EmptyResults EXCEPT !.processingErrors =
          <<ProcessingError(RemoteFilePath(1), "failed")>>] }

(***************************************************************************)
(* The external poller: handler and pollSftp                               *)
(***************************************************************************)
runVars == <<pListCalls, pFiles, pIndex, pResults, pGetCalls, pPutCalls,
             pDeleteCalls>>

\* return failedExecution(executionId, error, details): the failure record
\* is written and the structured failure returned, or the ledger call rejects
\* and the handler rejects with it, nothing recorded
PollFailed(error, details) ==
    \/ /\ pPc' = "returned"
       /\ pLedger' = markExecutionAsFailure(pLedger)
       /\ pOutcome' = FailureResponse(error, details)
    \/ /\ pPc' = "rejected"
       /\ pLedger' = pLedger
       /\ pOutcome' = HandlerThrew("failure not recorded")

\* The poll call threw: catch (e) { return failedExecution(executionId, error) }
PollThrew(error) ==
    /\ pPoll' = "threw"
    /\ PollFailed(error, None)

\* const executionTime = new Date(); await recordNewExecution(...), before
\* the try block: the start record is written, or the call rejects and the
\* handler rejects with it
PollerRecordNewExecution ==
    /\ pPc = "start"
    /\ \E now \in pClock..MaxTime : pClock' = now
    /\ \/ /\ pLedger' = recordNewExecution(pLedger)
          /\ pPc' = "config"
          /\ UNCHANGED pOutcome
       \/ /\ pOutcome' = HandlerThrew("execution not recorded")
          /\ pPc' = "rejected"
          /\ UNCHANGED pLedger
    /\ UNCHANGED <<pConfig, pStoredLastPollTime, pLastPollTime, pConn, runVars,
                   pPoll>>
    /\ UNCHANGED <<valVars, lpVars, outVars, sharedVars>>

\* The stash read of the config map, its parse, the lookup of the target's
\* config and the protocol check; then the call of the protocol's poll.
LoadPollerConfig ==
    /\ pPc = "config"
    /\ \/ /\ PollFailed("config map not read", None)
          /\ UNCHANGED <<pLastPollTime, pPoll>>
       \/ /\ ~pConfig.exists
          /\ PollFailed("config not found", None)
          /\ UNCHANGED <<pLastPollTime, pPoll>>
       \/ /\ pConfig.exists
          /\ pConfig.protocol \notin SupportedProtocols
          /\ PollFailed("unsupported connection protocol", None)
          /\ UNCHANGED <<pLastPollTime, pPoll>>
       \/ /\ pConfig.exists
          /\ pConfig.protocol \in SupportedProtocols
          /\ pLastPollTime' = pStoredLastPollTime
          /\ pPoll' = "running"
          /\ pPc' = IF pConfig.protocol = "sftp" THEN "connect" ELSE "pollFtp"
          /\ UNCHANGED <<pLedger, pOutcome>>
    /\ UNCHANGED <<pClock, pConfig, pStoredLastPollTime, pConn, runVars>>
    /\ UNCHANGED <<valVars, lpVars, outVars, sharedVars>>

\* pollFtp(ftpConfig): returns polling results, or throws
PollFtp ==
    /\ pPc = "pollFtp"
    /\ \/ /\ \E r \in FtpResults : pResults' = r
          /\ pPoll' = "returned"
          /\ pPc' = "polled"
          /\ UNCHANGED <<pLedger, pOutcome>>
       \/ /\ PollThrew("ftp poll failed")
          /\ UNCHANGED pResults
    /\ UNCHANGED <<pClock, pConfig, pStoredLastPollTime, pLastPollTime, pConn,
                   pListCalls, pFiles, pIndex, pGetCalls, pPutCalls, pDeleteCalls>>
    /\ UNCHANGED <<valVars, lpVars, outVars, sharedVars>>

\* await sftpClient.connect(ftpConfig.connectionDetails.config)
Connect ==
    /\ pPc = "connect"
    /\ \/ /\ pConn' = "open"
          /\ pPc' = "list"
          /\ UNCHANGED <<pLedger, pOutcome, pPoll>>
       \/ /\ PollThrew("connect failed")
          /\ UNCHANGED pConn
    /\ UNCHANGED <<pClock, pConfig, pStoredLastPollTime, pLastPollTime, runVars>>
    /\ UNCHANGED <<valVars, lpVars, outVars, sharedVars>>

ListCall(path, result) == [path |-> path, result |-> result]

\* getAllFileDetailsForPath(ftpConfig.remotePath), then the results object
ListDirectory ==
    /\ pPc = "list"
    /\ pConfig.remoteFiles = <<>>
    /\ \/ /\ \E directoryContents \in DirectoryListings :
                LET fileDetails == getAllFileDetailsForPath(directoryContents)
                IN  /\ pListCalls' = <<ListCall(RemotePath, directoryContents)>>
                    /\ pFiles' = fileDetails.filesToProcess
                    /\ pResults' = [processedFiles |-> <<>>,
                                    skippedItems |-> fileDetails.skippedItems,
                                    processingErrors |-> <<>>]
          /\ pIndex' = 1
          /\ pPc' = "loop"
          /\ UNCHANGED <<pLedger, pOutcome, pPoll>>
       \/ /\ PollThrew("list failed")
          /\ UNCHANGED <<pListCalls, pFiles, pResults, pIndex>>
    /\ UNCHANGED <<pClock, pConfig, pStoredLastPollTime, pLastPollTime, pConn,
                   pGetCalls, pPutCalls, pDeleteCalls>>
    /\ UNCHANGED <<valVars, lpVars, outVars, sharedVars>>

\* Where getSpecifiedFileDetails goes after listing the k-th of n named
\* files, were a mismatch not to end the loop
ContinueAfterMismatch(k, n, listResult) ==
    IF k = n THEN "loop" ELSE "list"

\* Where getSpecifiedFileDetails goes after listing the k-th of n named
\* files: anything but one match ends the loop (break), and so does the
\* last name.
AfterListing(k, n, listResult) ==
    IF Len(listResult) # 1 THEN "loop"
    ELSE IF k = n THEN "loop" ELSE "list"

\* One turn of the loop of getSpecifiedFileDetails: the next named file is
\* listed. Anything but one match is an error and ends the loop; one match
\* that is a plain file is to be processed, any other match is an error.
\* After the loop the results object is built.
ListNamedFile ==
    /\ pPc = "list"
    /\ pConfig.remoteFiles # <<>>
    /\ LET k == Len(pListCalls) + 1
           file == pConfig.remoteFiles[k]
           remoteFilePath == RemoteFilePath(file)
       IN  \/ /\ \E listResult \in NamedListings(file) :
                    /\ pListCalls' = Append(pListCalls,
                                            ListCall(remoteFilePath, listResult))
                    /\ IF Len(listResult) # 1
                       THEN /\ pResults' = [pResults EXCEPT !.processingErrors =
                                  Append(@, ProcessingError(remoteFilePath,
                                            "expected exactly one match"))]
                            /\ UNCHANGED pFiles
                       ELSE /\ IF listResult[1].type = "-"
                               THEN /\ pFiles' = Append(pFiles, listResult[1])
                                    /\ UNCHANGED pResults
                               ELSE /\ pResults' = [pResults EXCEPT
                                          !.processingErrors =
                                          Append(@, ProcessingError(remoteFilePath,
                                                    "not a file"))]
                                    /\ UNCHANGED pFiles
                    /\ pPc' = AfterListing(k, Len(pConfig.remoteFiles), listResult)
              /\ pIndex' = 1
              /\ UNCHANGED <<pLedger, pOutcome, pPoll>>
           \/ /\ PollThrew("list failed")
              /\ UNCHANGED <<pListCalls, pFiles, pResults, pIndex>>
    /\ UNCHANGED <<pClock, pConfig, pStoredLastPollTime, pLastPollTime, pConn,
                   pGetCalls, pPutCalls, pDeleteCalls>>
    /\ UNCHANGED <<valVars, lpVars, outVars, sharedVars>>

\* The head of the for loop over filesToProcess: past the last candidate the
\* loop ends; a candidate older than the watermark is skipped and ends the
\* loop; any other candidate is downloaded.
EvaluateCandidate ==
    /\ pPc = "loop"
    /\ IF pIndex > Len(pFiles)
       THEN /\ pPc' = "end"
            /\ UNCHANGED <<pClock, pResults, pGetCalls>>
       ELSE LET file == pFiles[pIndex]
                remoteFilePath == RemoteFilePath(file.name)
            IN  \E now \in pClock..MaxTime :
                   /\ pClock' = now
                   /\ IF IsStale(file, now, pLastPollTime)
                      THEN /\ pResults' = [pResults EXCEPT !.skippedItems =
                                 Append(@, SkippedItem(remoteFilePath,
                                           "not newer than last poll"))]
                           /\ pPc' = "end"
                           /\ UNCHANGED pGetCalls
                      ELSE /\ pGetCalls' = pGetCalls \cup {remoteFilePath}
                           /\ pPc' = "get"
                           /\ UNCHANGED pResults
    /\ UNCHANGED <<pConfig, pStoredLastPollTime, pLastPollTime, pConn, pLedger,
                   pListCalls, pFiles, pIndex, pPutCalls, pDeleteCalls, pPoll,
                   pOutcome>>
    /\ UNCHANGED <<valVars, lpVars, outVars, sharedVars>>

\* A failure of one candidate that is recorded and ends the loop.
AbortOnCandidateFailure(errorMessage) ==
    /\ pResults' = [pResults EXCEPT !.processingErrors =
          Append(@, ProcessingError(RemoteFilePath(pFiles[pIndex].name),
                                    errorMessage))]
    /\ pIndex' = pIndex
    /\ pPc' = "end"

\* catch (e) { sftpPollingResults.processingErrors.push(...) }, next candidate
CandidateFailed(errorMessage) ==
    /\ pResults' = [pResults EXCEPT !.processingErrors =
          Append(@, ProcessingError(RemoteFilePath(pFiles[pIndex].name),
                                    errorMessage))]
    /\ pIndex' = pIndex + 1
    /\ pPc' = "loop"

\* sftpPollingResults.processedFiles.push(remoteFilePath), next candidate
CandidateProcessed ==
    /\ pResults' = [pResults EXCEPT !.processedFiles =
          Append(@, RemoteFilePath(pFiles[pIndex].name))]
    /\ pIndex' = pIndex + 1
    /\ pPc' = "loop"

\* await sftpClient.get(remoteFilePath) settles; on success the contents are
\* put into the bucket
GetSettles ==
    /\ pPc = "get"
    /\ \/ /\ pPutCalls' = pPutCalls \cup {DestinationKey(pFiles[pIndex].name)}
          /\ pPc' = "put"
          /\ UNCHANGED <<pResults, pIndex>>
       \/ /\ CandidateFailed("get failed")
          /\ UNCHANGED pPutCalls
    /\ UNCHANGED <<pClock, pConfig, pStoredLastPollTime, pLastPollTime, pConn,
                   pLedger, pListCalls, pFiles, pGetCalls, pDeleteCalls, pPoll,
                   pOutcome>>
    /\ UNCHANGED <<valVars, lpVars, outVars, sharedVars>>

\* A remote delete that does not depend on the config.
AlwaysDeletesRemote(ftpConfig) == TRUE

\* ftpConfig.deleteAfterProcessing && (await sftpClient.delete(remoteFilePath))
DeletesRemote(ftpConfig) == ftpConfig.deleteAfterProcessing

\* await bucketClient().send(new PutObjectCommand(...)) settles; on success
\* the remote file is deleted when deleteAfterProcessing is set, and else
\* recorded as processed
PutSettles ==
    /\ pPc = "put"
    /\ \/ /\ DeletesRemote(pConfig)
          /\ pDeleteCalls' = pDeleteCalls \cup {RemoteFilePath(pFiles[pIndex].name)}
          /\ pPc' = "delete"
          /\ UNCHANGED <<pResults, pIndex>>
       \/ /\ ~DeletesRemote(pConfig)
          /\ CandidateProcessed
          /\ UNCHANGED pDeleteCalls
       \/ /\ CandidateFailed("put failed")
          /\ UNCHANGED pDeleteCalls
    /\ UNCHANGED <<pClock, pConfig, pStoredLastPollTime, pLastPollTime, pConn,
                   pLedger, pListCalls, pFiles, pGetCalls, pPutCalls, pPoll,
                   pOutcome>>
    /\ UNCHANGED <<valVars, lpVars, outVars, sharedVars>>

\* await sftpClient.delete(remoteFilePath) settles
DeleteSettles ==
    /\ pPc = "delete"
    /\ \/ CandidateProcessed
       \/ CandidateFailed("delete failed")
    /\ UNCHANGED <<pClock, pConfig, pStoredLastPollTime, pLastPollTime, pConn,
                   pLedger, pListCalls, pFiles, pGetCalls, pPutCalls,
                   pDeleteCalls, pPoll, pOutcome>>
    /\ UNCHANGED <<valVars, lpVars, outVars, sharedVars>>

\* await sftpClient.end(); return sftpPollingResults. A call of end() that
\* throws may or may not have closed the connection.
EndConnection ==
    /\ pPc = "end"
    /\ \/ /\ pConn' = "closed"
          /\ pPoll' = "returned"
          /\ pPc' = "polled"
          /\ UNCHANGED <<pLedger, pOutcome>>
       \/ /\ pConn' \in {"open", "closed"}
          /\ PollThrew("end failed")
    /\ UNCHANGED <<pClock, pConfig, pStoredLastPollTime, pLastPollTime,
                   runVars>>
    /\ UNCHANGED <<valVars, lpVars, outVars, sharedVars>>

\* The poll is taken to report no processing error, whatever it returned.
NeverHasProcessingErrors(results) == FALSE

\* results.processingErrors.length > 0
HasProcessingErrors(results) == Len(results.processingErrors) > 0

\* results.processingErrors.length > 0:
\* return failedExecution(executionId, error, results.processingErrors)
ReportProcessingErrors ==
    /\ pPc = "polled"
    /\ HasProcessingErrors(pResults)
    /\ PollFailed("at least one processing error encountered during polling",
                  pResults.processingErrors)
    /\ UNCHANGED <<pClock, pConfig, pStoredLastPollTime, pLastPollTime, pConn,
                   runVars, pPoll>>
    /\ UNCHANGED <<valVars, lpVars, outVars, sharedVars>>

\* No processing error: ftpConfig.lastPollTime = new Date() and
\* await stashClient.send(new SetValueCommand(...)): the config map is written
\* back to the store, or the write rejects and the catch reports the failure
PersistLastPollTime ==
    /\ pPc = "polled"
    /\ ~HasProcessingErrors(pResults)
    /\ \E now \in pClock..MaxTime :
          /\ pClock' = now
          /\ pLastPollTime' = At(now)
          /\ \/ /\ pStoredLastPollTime' = At(now)
                /\ pPc' = "persisted"
                /\ UNCHANGED <<pLedger, pOutcome>>
             \/ /\ PollFailed("config map not written", None)
                /\ UNCHANGED pStoredLastPollTime
    /\ UNCHANGED <<pConfig, pConn, runVars, pPoll>>
    /\ UNCHANGED <<valVars, lpVars, outVars, sharedVars>>

\* await markExecutionAsSuccessful(executionId); return results; when the
\* call rejects the catch reports the failure, with the store already written
MarkPollSuccessful ==
    /\ pPc = "persisted"
    /\ \/ /\ pLedger' = markExecutionAsSuccessful(pLedger)
          /\ pOutcome' = PollResults(pResults)
          /\ pPc' = "returned"
       \/ PollFailed("execution not marked successful", None)
    /\ UNCHANGED <<pClock, pConfig, pStoredLastPollTime, pLastPollTime, pConn,
                   runVars, pPoll>>
    /\ UNCHANGED <<valVars, lpVars, outVars, sharedVars>>

\* The handler is invoked again for the target.
InvokeAgain ==
    /\ pPc \in {"returned", "rejected"}
    /\ pPc' = "start"
    /\ pLastPollTime' = Unset
    /\ pLedger' = <<>>
    /\ pListCalls' = <<>>
    /\ pFiles' = <<>>
    /\ pIndex' = 0
    /\ pResults' = EmptyResults
    /\ pGetCalls' = {}
    /\ pPutCalls' = {}
    /\ pDeleteCalls' = {}
    /\ pPoll' = "none"
    /\ pOutcome' = Pending
    /\ UNCHANGED <<pClock, pConfig, pStoredLastPollTime, pConn>>
    /\ UNCHANGED <<valVars, lpVars, outVars, sharedVars>>

(***************************************************************************)
(* pollSftp calls that share the module's sftpClient                       *)
(***************************************************************************)
\* The pollSftp calls in progress in one module instance, each for its own
\* config; every call uses the module-level `const sftpClient = new sftp()`.
Runs == 1..MaxRuns

\* A pollSftp call: the call it has invoked and awaits (pc), the connection
\* the client held when the call was invoked (conn, 0: none), of its config
\* the number of names in remoteFiles (0: the directory is listed) and
\* deleteAfterProcessing, the names it has listed so far, and the candidates
\* of filesToProcess its for loop has not reached yet.
SharedRun(pc, names, deleteAfterProcessing) ==
    [pc |-> pc, conn |-> 0, names |-> names,
     deleteAfterProcessing |-> deleteAfterProcessing, listed |-> 0, left |-> 0]

IdleRun == SharedRun("idle", 0, FALSE)

\* ---- inputs of the shared-client specification
\* Every pollSftp call has invoked connect, on the client before any
\* connection was established.
SharedRuns ==
    {SharedRun("connect", n, d) : n \in 0..MaxFiles, d \in BOOLEAN}

\* What listing one named file returns: no match, a plain file, a directory.
SharedNamedListings(name) ==
    {<<>>, <<FileInfo(name, "-", TRUE, 0)>>, <<FileInfo(name, "d", TRUE, 0)>>}

\* A call a run made on the connection the client held at that time.
Acted(run, call, connection) ==
    [run |-> run, call |-> call, connection |-> connection]

\* The run's call on the client settles: it acted on the connection the
\* client held when the run invoked it, whichever run established it.
ActOnClient(r, call) ==
    sActed' = IF sRun[r].conn = 0 THEN sActed
              ELSE sActed \cup {Acted(r, call, sRun[r].conn)}

\* The continuation of a settled await runs on to the next call and invokes
\* it at once, on the connection the client holds then.
Invoke(run, client) == [run EXCEPT !.conn = client]

\* The head of the for loop over filesToProcess: past the last candidate the
\* loop ends; a candidate older than the watermark is skipped and ends the
\* loop; any other candidate is downloaded. The loop is followed by end().
NextCandidate(run) ==
    IF run.left = 0 THEN {[run EXCEPT !.pc = "end"]}
    ELSE {[run EXCEPT !.pc = "end"],
          [run EXCEPT !.pc = "get", !.left = @ - 1]}

\* await sftpClient.connect(ftpConfig.connectionDetails.config) settles: the
\* client holds the connection to this run's server from now on and the run
\* invokes its first list on it, or connect throws.
SharedConnect(r) ==
    /\ sRun[r].pc = "connect"
    /\ \/ /\ sClient' = r
          /\ sRun' = [sRun EXCEPT ![r] = Invoke([@ EXCEPT !.pc = "list"], r)]
       \/ /\ sRun' = [sRun EXCEPT ![r].pc = "threw", ![r].conn = 0]
          /\ UNCHANGED sClient
    /\ UNCHANGED sActed
    /\ UNCHANGED <<valVars, lpVars, outVars, pollVars>>

\* await sftpClient.list(...) settles: the listing of the directory, or of
\* the next name of remoteFiles. A call invoked on a closed client throws; a
\* throw leaves pollSftp. The listing of the directory gives the candidates;
\* the listing of a name gives one candidate when it is one plain file, ends
\* the resolution when it is not one match, and is followed by the listing of
\* the next name otherwise.
SharedList(r) ==
    /\ sRun[r].pc = "list"
    /\ ActOnClient(r, "list")
    /\ \/ sRun' = [sRun EXCEPT ![r].pc = "threw", ![r].conn = 0]
       \/ /\ sRun[r].conn # 0
          /\ sRun[r].names = 0
          /\ \E n \in 0..MaxFiles :
                \E next \in NextCandidate([sRun[r] EXCEPT !.left = n]) :
                   sRun' = [sRun EXCEPT ![r] = Invoke(next, sClient)]
       \/ /\ sRun[r].conn # 0
          /\ sRun[r].names > 0
          /\ \E listResult \in SharedNamedListings(sRun[r].listed + 1) :
                LET k == sRun[r].listed + 1
                    isFile == Len(listResult) = 1 /\ listResult[1].type = "-"
                    run == [sRun[r] EXCEPT
                               !.listed = k,
                               !.left = IF isFile THEN @ + 1 ELSE @]
                IN  IF AfterListing(k, run.names, listResult) = "list"
                    THEN sRun' = [sRun EXCEPT ![r] = Invoke(run, sClient)]
                    ELSE \E next \in NextCandidate(run) :
                            sRun' = [sRun EXCEPT ![r] = Invoke(next, sClient)]
    /\ UNCHANGED sClient
    /\ UNCHANGED <<valVars, lpVars, outVars, pollVars>>

\* await sftpClient.get(remoteFilePath) settles: the contents are put into
\* the bucket; a throw is caught in the loop, which goes on.
SharedGet(r) ==
    /\ sRun[r].pc = "get"
    /\ ActOnClient(r, "get")
    /\ \/ /\ sRun[r].conn # 0
          /\ sRun' = [sRun EXCEPT ![r] = Invoke([@ EXCEPT !.pc = "put"], sClient)]
       \/ \E next \in NextCandidate(sRun[r]) :
             sRun' = [sRun EXCEPT ![r] = Invoke(next, sClient)]
    /\ UNCHANGED sClient
    /\ UNCHANGED <<valVars, lpVars, outVars, pollVars>>

\* await bucketClient().send(new PutObjectCommand(...)) settles: on success
\* the remote file is deleted when deleteAfterProcessing is set; else, and
\* after a throw (caught), the loop goes on.
SharedPut(r) ==
    /\ sRun[r].pc = "put"
    /\ \/ /\ DeletesRemote(sRun[r])
          /\ sRun' = [sRun EXCEPT ![r] = Invoke([@ EXCEPT !.pc = "delete"], sClient)]
       \/ /\ ~DeletesRemote(sRun[r])
          /\ \E next \in NextCandidate(sRun[r]) :
                sRun' = [sRun EXCEPT ![r] = Invoke(next, sClient)]
       \/ \E next \in NextCandidate(sRun[r]) :
             sRun' = [sRun EXCEPT ![r] = Invoke(next, sClient)]
    /\ UNCHANGED <<sClient, sActed>>
    /\ UNCHANGED <<valVars, lpVars, outVars, pollVars>>

\* await sftpClient.delete(remoteFilePath) settles: whether it resolves or
\* throws (caught), the loop goes on.
SharedDelete(r) ==
    /\ sRun[r].pc = "delete"
    /\ ActOnClient(r, "delete")
    /\ \E next \in NextCandidate(sRun[r]) :
          sRun' = [sRun EXCEPT ![r] = Invoke(next, sClient)]
    /\ UNCHANGED sClient
    /\ UNCHANGED <<valVars, lpVars, outVars, pollVars>>

\* await sftpClient.end() settles; return sftpPollingResults. The connection
\* the client holds is closed; a call of end() that throws may or may not
\* have closed it.
SharedEnd(r) ==
    /\ sRun[r].pc = "end"
    /\ ActOnClient(r, "end")
    /\ \/ /\ sClient' = 0
          /\ sRun' = [sRun EXCEPT ![r].pc = "returned", ![r].conn = 0]
       \/ /\ sClient' \in {sClient, 0}
          /\ sRun' = [sRun EXCEPT ![r].pc = "threw", ![r].conn = 0]
    /\ UNCHANGED <<valVars, lpVars, outVars, pollVars>>

(***************************************************************************)
(* Specifications                                                          *)
(***************************************************************************)
\* validateTransactionSetControlNumbers on every payload of the domain
InitValidate ==
    /\ vPayload \in ValidationPayloads
    /\ vResult = Pending
    /\ lpSender = "this-is-me"
    /\ lpReceiver = "another-merchant"
    /\ lpStash = [k \in PairKeys("this-is-me", "another-merchant") |-> NoValue]
    /\ lpWritten = FALSE
    /\ lpFwd = Pending
    /\ lpRev = Pending
    /\ lpFwdReads = 0
    /\ lpRevReads = 0
    /\ lpFwdFails = {}
    /\ lpRevFails = {}
    /\ oPc = "idle"
    /\ oEvent = OutboundEvent(FALSE, NoId, ArrayJson(<<>>))
    /\ oLedger = <<>>
    /\ oCounters = [g \in Segments |-> 0]
    /\ oIssued = <<>>
    /\ oSenderProfile = None
    /\ oReceiverProfile = None
    /\ oPartnership = None
    /\ oGuide = None
    /\ oType = NoId
    /\ oFic = NoId
    /\ oConfig = None
    /\ oEnvelope = None
    /\ dState = <<>>
    /\ dGuideJson = <<>>
    /\ dTranslated = <<>>
    /\ dDelivered = <<>>
    /\ dOutcome = <<>>
    /\ oResult = Pending
    /\ pPc = "idle"
    /\ pClock = 0
    /\ pConfig = NoPollerConfig
    /\ pStoredLastPollTime = Unset
    /\ pLastPollTime = Unset
    /\ pConn = "closed"
    /\ pLedger = <<>>
    /\ pListCalls = <<>>
    /\ pFiles = <<>>
    /\ pIndex = 0
    /\ pResults = EmptyResults
    /\ pGetCalls = {}
    /\ pPutCalls = {}
    /\ pDeleteCalls = {}
    /\ pPoll = "none"
    /\ pOutcome = Pending
    /\ sRun = [r \in Runs |-> IdleRun]
    /\ sClient = 0
    /\ sActed = {}

NextValidate == Validate
SpecValidate == InitValidate /\ [][NextValidate]_vars

\* loadPartnership in both argument orders on every store of the domain,
\* with the store written to at any time
InitPartnership ==
    /\ vPayload = ArrayJson(<<>>)
    /\ vResult = Pending
    /\ lpSender \in Partners
    /\ lpReceiver \in Partners
    /\ lpStash \in [PairKeys(lpSender, lpReceiver) -> StoredValues]
    /\ lpWritten = FALSE
    /\ lpFwd = Pending
    /\ lpRev = Pending
    /\ lpFwdReads = 0
    /\ lpRevReads = 0
    /\ lpFwdFails = {}
    /\ lpRevFails = {}
    /\ oPc = "idle"
    /\ oEvent = OutboundEvent(FALSE, NoId, ArrayJson(<<>>))
    /\ oLedger = <<>>
    /\ oCounters = [g \in Segments |-> 0]
    /\ oIssued = <<>>
    /\ oSenderProfile = None
    /\ oReceiverProfile = None
    /\ oPartnership = None
    /\ oGuide = None
    /\ oType = NoId
    /\ oFic = NoId
    /\ oConfig = None
    /\ oEnvelope = None
    /\ dState = <<>>
    /\ dGuideJson = <<>>
    /\ dTranslated = <<>>
    /\ dDelivered = <<>>
    /\ dOutcome = <<>>
    /\ oResult = Pending
    /\ pPc = "idle"
    /\ pClock = 0
    /\ pConfig = NoPollerConfig
    /\ pStoredLastPollTime = Unset
    /\ pLastPollTime = Unset
    /\ pConn = "closed"
    /\ pLedger = <<>>
    /\ pListCalls = <<>>
    /\ pFiles = <<>>
    /\ pIndex = 0
    /\ pResults = EmptyResults
    /\ pGetCalls = {}
    /\ pPutCalls = {}
    /\ pDeleteCalls = {}
    /\ pPoll = "none"
    /\ pOutcome = Pending
    /\ sRun = [r \in Runs |-> IdleRun]
    /\ sClient = 0
    /\ sActed = {}

NextPartnership ==
    \/ LoadForward
    \/ LoadReverse
    \/ createSampleStashRecords
    \/ \E key \in DOMAIN lpStash, value \in StoredValues : StashWrite(key, value)
SpecPartnership == InitPartnership /\ [][NextPartnership]_vars

\* One execution of the outbound handler on every event, store and prior
\* control number of the domain
InitOutbound ==
    /\ vPayload = ArrayJson(<<>>)
    /\ vResult = Pending
    /\ lpSender = "this-is-me"
    /\ lpReceiver = "another-merchant"
    /\ lpStash \in OutboundStashes
    /\ lpWritten = FALSE
    /\ lpFwd = Pending
    /\ lpRev = Pending
    /\ lpFwdReads = 0
    /\ lpRevReads = 0
    /\ lpFwdFails = {}
    /\ lpRevFails = {}
    /\ oPc = "start"
    /\ oEvent \in OutboundEvents
    /\ oLedger = <<>>
    /\ oCounters \in {[g \in Segments |-> IF g = "ISA" THEN n ELSE 0] :
                          n \in 0..MaxPrior}
    /\ oIssued = <<>>
    /\ oSenderProfile = None
    /\ oReceiverProfile = None
    /\ oPartnership = None
    /\ oGuide = None
    /\ oType = NoId
    /\ oFic = NoId
    /\ oConfig = None
    /\ oEnvelope = None
    /\ dState = <<>>
    /\ dGuideJson = <<>>
    /\ dTranslated = <<>>
    /\ dDelivered = <<>>
    /\ dOutcome = <<>>
    /\ oResult = Pending
    /\ pPc = "idle"
    /\ pClock = 0
    /\ pConfig = NoPollerConfig
    /\ pStoredLastPollTime = Unset
    /\ pLastPollTime = Unset
    /\ pConn = "closed"
    /\ pLedger = <<>>
    /\ pListCalls = <<>>
    /\ pFiles = <<>>
    /\ pIndex = 0
    /\ pResults = EmptyResults
    /\ pGetCalls = {}
    /\ pPutCalls = {}
    /\ pDeleteCalls = {}
    /\ pPoll = "none"
    /\ pOutcome = Pending
    /\ sRun = [r \in Runs |-> IdleRun]
    /\ sClient = 0
    /\ sActed = {}

NextOutbound ==
    \/ RecordNewExecution
    \/ ParseEvent
    \/ LoadSenderProfile
    \/ LoadReceiverProfile
    \/ ResolvePartnership
    \/ SampleSavedBetweenReads
    \/ ReverseKeyDeletedBetweenReads
    \/ DetermineTransactionSetType
    \/ GetTransactionSetConfigs
    \/ ResolveGuide
    \/ ResolveTransactionSetConfig
    \/ LookupFunctionalIdentifierCode
    \/ GenerateIsaControlNumber
    \/ GenerateGsControlNumber
    \/ FanOut
    \/ \E i \in 1..Len(dState) : MappingSettles(i)
    \/ \E i \in 1..Len(dState) : TranslationSettles(i)
    \/ \E i \in 1..Len(dState) : DeliverySettles(i)
    \/ ReportFailedDeliveries
    \/ ReturnDeliveryResults
SpecOutbound == InitOutbound /\ [][NextOutbound]_vars

\* Executions of the poller handler for one poll target, on every config,
\* clock and stored lastPollTime of the domain
InitPoller ==
    /\ vPayload = ArrayJson(<<>>)
    /\ vResult = Pending
    /\ lpSender = "this-is-me"
    /\ lpReceiver = "another-merchant"
    /\ lpStash = [k \in PairKeys("this-is-me", "another-merchant") |-> NoValue]
    /\ lpWritten = FALSE
    /\ lpFwd = Pending
    /\ lpRev = Pending
    /\ lpFwdReads = 0
    /\ lpRevReads = 0
    /\ lpFwdFails = {}
    /\ lpRevFails = {}
    /\ oPc = "idle"
    /\ oEvent = OutboundEvent(FALSE, NoId, ArrayJson(<<>>))
    /\ oLedger = <<>>
    /\ oCounters = [g \in Segments |-> 0]
    /\ oIssued = <<>>
    /\ oSenderProfile = None
    /\ oReceiverProfile = None
    /\ oPartnership = None
    /\ oGuide = None
    /\ oType = NoId
    /\ oFic = NoId
    /\ oConfig = None
    /\ oEnvelope = None
    /\ dState = <<>>
    /\ dGuideJson = <<>>
    /\ dTranslated = <<>>
    /\ dDelivered = <<>>
    /\ dOutcome = <<>>
    /\ oResult = Pending
    /\ pPc = "start"
    /\ pClock \in Times
    /\ pConfig \in PollerConfigs
    /\ pStoredLastPollTime \in {Unset} \cup {At(t) : t \in 0..pClock}
    /\ pLastPollTime = Unset
    /\ pConn = "closed"
    /\ pLedger = <<>>
    /\ pListCalls = <<>>
    /\ pFiles = <<>>
    /\ pIndex = 0
    /\ pResults = EmptyResults
    /\ pGetCalls = {}
    /\ pPutCalls = {}
    /\ pDeleteCalls = {}
    /\ pPoll = "none"
    /\ pOutcome = Pending
    /\ sRun = [r \in Runs |-> IdleRun]
    /\ sClient = 0
    /\ sActed = {}

NextPoller ==
    \/ PollerRecordNewExecution
    \/ LoadPollerConfig
    \/ PollFtp
    \/ Connect
    \/ ListDirectory
    \/ ListNamedFile
    \/ EvaluateCandidate
    \/ GetSettles
    \/ PutSettles
    \/ DeleteSettles
    \/ EndConnection
    \/ ReportProcessingErrors
    \/ PersistLastPollTime
    \/ MarkPollSuccessful
    \/ InvokeAgain
SpecPoller == InitPoller /\ [][NextPoller]_vars

\* pollSftp called for every run's config in one module instance, the calls
\* interleaving at their awaits
InitShared ==
    /\ vPayload = ArrayJson(<<>>)
    /\ vResult = Pending
    /\ lpSender = "this-is-me"
    /\ lpReceiver = "another-merchant"
    /\ lpStash = [k \in PairKeys("this-is-me", "another-merchant") |-> NoValue]
    /\ lpWritten = FALSE
    /\ lpFwd = Pending
    /\ lpRev = Pending
    /\ lpFwdReads = 0
    /\ lpRevReads = 0
    /\ lpFwdFails = {}
    /\ lpRevFails = {}
    /\ oPc = "idle"
    /\ oEvent = OutboundEvent(FALSE, NoId, ArrayJson(<<>>))
    /\ oLedger = <<>>
    /\ oCounters = [g \in Segments |-> 0]
    /\ oIssued = <<>>
    /\ oSenderProfile = None
    /\ oReceiverProfile = None
    /\ oPartnership = None
    /\ oGuide = None
    /\ oType = NoId
    /\ oFic = NoId
    /\ oConfig = None
    /\ oEnvelope = None
    /\ dState = <<>>
    /\ dGuideJson = <<>>
    /\ dTranslated = <<>>
    /\ dDelivered = <<>>
    /\ dOutcome = <<>>
    /\ oResult = Pending
    /\ pPc = "idle"
    /\ pClock = 0
    /\ pConfig = NoPollerConfig
    /\ pStoredLastPollTime = Unset
    /\ pLastPollTime = Unset
    /\ pConn = "closed"
    /\ pLedger = <<>>
    /\ pListCalls = <<>>
    /\ pFiles = <<>>
    /\ pIndex = 0
    /\ pResults = EmptyResults
    /\ pGetCalls = {}
    /\ pPutCalls = {}
    /\ pDeleteCalls = {}
    /\ pPoll = "none"
    /\ pOutcome = Pending
    /\ sRun \in [Runs -> SharedRuns]
    /\ sClient = 0
    /\ sActed = {}

NextShared ==
    \/ \E r \in Runs : SharedConnect(r)
    \/ \E r \in Runs : SharedList(r)
    \/ \E r \in Runs : SharedGet(r)
    \/ \E r \in Runs : SharedPut(r)
    \/ \E r \in Runs : SharedDelete(r)
    \/ \E r \in Runs : SharedEnd(r)
SpecShared == InitShared /\ [][NextShared]_vars

(***************************************************************************)
(* Claims on validateTransactionSetControlNumbers                          *)
(***************************************************************************)
\* The numeric value of the k-th transaction set's control number; NaN when
\* the transaction set or the field is missing or not numeric.
EmbeddedControlNumber(guideJson, k) ==
    LET t == guideJson.items[k]
    IN  IF t.kind = "object" THEN ToNumber(t.ctl) ELSE NaN

InSequence(guideJson) ==
    \A k \in 1..Len(guideJson.items) :
        EmbeddedControlNumber(guideJson, k) = Finite(k)

\* C1: the validation succeeds exactly when, for every k in 1..N, the k-th
\* transaction set of the normalized payload carries control number k; a
\* permutation, a gap, a duplicate or a missing number makes it throw.
C1_ValidatesExactlyInSequence ==
    vResult # Pending => (vResult = Ok <=> InSequence(vPayload))

\* An array of three sets numbered 1, "2", "03" was accepted.
C1_WitnessAccepted ==
    /\ vResult = Ok
    /\ vPayload = ArrayJson(<<TransactionSet("850", Num(1)),
                              TransactionSet("850", Str(<<"2">>)),
                              TransactionSet("850", Num(3))>>)

(***************************************************************************)
(* Claims on loadPartnership                                               *)
(***************************************************************************)
BothLoaded == lpFwd # Pending /\ lpRev # Pending

\* The two keys hold valid partnership records that differ.
ConflictingRecords ==
    LET a == lpStash[PartnershipKey(lpSender, lpReceiver)]
        b == lpStash[PartnershipKey(lpReceiver, lpSender)]
    IN  /\ a.kind = "object" /\ a.valid
        /\ b.kind = "object" /\ b.valid
        /\ a # b

\* C5 as stated: in every state of the store (the store as it is while the
\* two calls read it), reads possibly failing, both argument orders yield the
\* same record or both fail.
C5_OrderIndependentAlways ==
    (BothLoaded /\ ~lpWritten) => lpFwd = lpRev

\* C5 amended: in every state of the store in which the two keys do not hold
\* two different valid records, reads possibly failing, the two argument
\* orders never yield two different records: when both calls succeed they
\* yield the same record, and when no read of either call threw they yield
\* the same record or both fail. (A call whose reads threw may fail while the
\* other succeeds.)
C5_OrderIndependent ==
    (BothLoaded /\ ~lpWritten /\ ~ConflictingRecords) =>
        /\ (lpFwd.kind = "found" /\ lpRev.kind = "found") => lpFwd = lpRev
        /\ (lpFwdFails = {} /\ lpRevFails = {}) => lpFwd = lpRev

\* The record is stored under receiver|sender only and both orders found it.
C5_WitnessReverseKey ==
    /\ lpSender # lpReceiver
    /\ lpStash[PartnershipKey(lpSender, lpReceiver)] = NoValue
    /\ lpStash[PartnershipKey(lpReceiver, lpSender)] = Partnership("A")
    /\ ~lpWritten
    /\ lpFwdFails = {} /\ lpRevFails = {}
    /\ lpFwdReads = 2 /\ lpRevReads = 1
    /\ lpFwd = Found("A") /\ lpRev = Found("A")

(***************************************************************************)
(* Claims on the outbound pipeline                                         *)
(***************************************************************************)
Destinations == 1..Len(dState)

\* The fan-out over the destinations of the selected config has started.
FannedOut == oPc \in {"settling", "returned"} /\ oEnvelope # None

\* The handler returned after the fan-out.
Aggregated == oPc = "returned" /\ oEnvelope # None

DestinationSettles(j) ==
    MappingSettles(j) \/ TranslationSettles(j) \/ DeliverySettles(j)

SomeRejected == \E i \in Destinations : dState[i] = "rejected"

\* C2: a destination's failure in mapping, validation, translation or
\* delivery leaves every other destination able to run on to its own outcome
\* (while some destination is rejected, every unsettled one can still take
\* its next step, and the handler does not return before all have settled),
\* and the aggregation sees exactly n results, one per destination.
C2_FailureIsolated ==
    /\ FannedOut =>
          /\ Len(dState) = Len(oConfig.destinations)
          /\ Len(dOutcome) = Len(oConfig.destinations)
    /\ (oPc = "settling" /\ SomeRejected) =>
          \A j \in Destinations :
              ~Settled(dState[j]) => ENABLED DestinationSettles(j)
    /\ Aggregated =>
          /\ \A j \in Destinations :
                /\ Settled(dState[j])
                /\ dOutcome[j].status = dState[j]
          /\ LET deliveryResultsByStatus == DeliveryResultsByStatus(dOutcome)
             IN  Len(deliveryResultsByStatus.fulfilled)
                    + Len(deliveryResultsByStatus.rejected)
                        = Len(oConfig.destinations)
          /\ oResult.kind = "success" =>
                Len(oResult.deliveryResults) = Len(oConfig.destinations)
          /\ (oResult.kind = "failure" /\ oResult.details # None) =>
                Len(oResult.details.fulfilled) + Len(oResult.details.rejected)
                    = Len(oConfig.destinations)

\* Two destinations: the first failed in mapping, the second was delivered,
\* and the aggregation reported both.
C2_WitnessSiblingDelivered ==
    /\ Aggregated
    /\ Len(dState) = 2
    /\ dOutcome[1] = Rejected("mapping failed")
    /\ dState[2] = "fulfilled"
    /\ Len(oResult.details.fulfilled) = 1
    /\ Len(oResult.details.rejected) = 1

ProfileLookupFailed ==
    /\ oResult.kind = "failure"
    /\ oResult.error \in {"sender profile not found", "receiver profile not found"}

NoDeliveryAttempted == \A i \in 1..Len(dDelivered) : dDelivered[i] = None

\* C3: when the sender's or the receiver's profile lookup fails the run
\* returns a fatal structured failure, no control number is issued and no
\* delivery is attempted; and a control number is issued only after both
\* profiles, the partnership, the transaction set type, the guide, the
\* config and the functional identifier code have been resolved. An
\* execution that ends without both profiles, returning or rejecting, has
\* issued no control number and attempted no delivery.
C3_NoControlNumberBeforeResolution ==
    /\ ProfileLookupFailed =>
          /\ oPc = "returned"
          /\ oResult = FailureResponse(oResult.error, None)
          /\ oLedger = <<"start", "failure">>
          /\ oIssued = <<>>
          /\ dState = <<>>
          /\ NoDeliveryAttempted
    /\ (oPc \in {"returned", "rejected"}
          /\ (oSenderProfile = None \/ oReceiverProfile = None)) =>
          /\ oResult.kind \in {"failure", "threw"}
          /\ oIssued = <<>>
          /\ dState = <<>>
          /\ NoDeliveryAttempted
    /\ oIssued # <<>> =>
          /\ oSenderProfile # None
          /\ oReceiverProfile # None
          /\ oPartnership # None
          /\ oType # NoId
          /\ oGuide # None
          /\ oConfig # None
          /\ oFic # NoId

\* The receiver's profile lookup failed after the sender's had succeeded.
C3_WitnessReceiverProfileMissing ==
    /\ oPc = "returned"
    /\ oSenderProfile # None
    /\ oResult = FailureResponse("receiver profile not found", None)

\* The values of the fulfilled destinations, in destination order.
RECURSIVE FulfilledValues(_)
FulfilledValues(k) ==
    IF k = 0 THEN <<>>
    ELSE IF dOutcome[k].status = "fulfilled"
         THEN Append(FulfilledValues(k - 1), dOutcome[k].value)
         ELSE FulfilledValues(k - 1)

\* The reasons of the rejected destinations, in destination order.
RECURSIVE RejectedReasons(_)
RejectedReasons(k) ==
    IF k = 0 THEN <<>>
    ELSE IF dOutcome[k].status = "rejected"
         THEN Append(RejectedReasons(k - 1), dOutcome[k].reason)
         ELSE RejectedReasons(k - 1)

EveryDestinationFulfilled ==
    Aggregated /\ \A i \in Destinations : dState[i] = "fulfilled"

\* When at least one destination rejected the execution is reported as
\* failed with the fulfilled and the rejected results attached and no success
\* record in the ledger; what was delivered stays delivered.
RejectionReported ==
    (Aggregated /\ SomeRejected) =>
          /\ oResult.kind = "failure"
          /\ Len(oResult.details.fulfilled) = Len(FulfilledValues(Len(dOutcome)))
          /\ \A k \in 1..Len(oResult.details.fulfilled) :
                oResult.details.fulfilled[k].value
                    = FulfilledValues(Len(dOutcome))[k]
          /\ Len(oResult.details.rejected) = Len(RejectedReasons(Len(dOutcome)))
          /\ \A k \in 1..Len(oResult.details.rejected) :
                oResult.details.rejected[k].reason
                    = RejectedReasons(Len(dOutcome))[k]
          /\ oLedger = <<"start", "failure">>
          /\ \A i \in Destinations :
                dState[i] = "fulfilled" => dDelivered[i] # None

\* A success is statusCode 200 with the fulfilled results, one per
\* destination in destination order, and a success record in the ledger, and
\* is returned only when every destination fulfilled.
SuccessOnlyWhenAllFulfilled ==
    /\ oResult.kind = "success" =>
          /\ EveryDestinationFulfilled
          /\ oResult.statusCode = 200
          /\ oResult.deliveryResults = [i \in Destinations |-> dOutcome[i].value]
          /\ oLedger = <<"start", "success">>
    /\ (\E k \in 1..Len(oLedger) : oLedger[k] = "success") =>
          EveryDestinationFulfilled

\* C4 as stated: a rejection is reported as a failure with both groups of
\* results, and the handler records success and returns statusCode 200 with
\* the fulfilled results exactly when every destination fulfilled.
C4_SuccessExactlyWhenAllFulfilled ==
    /\ RejectionReported
    /\ SuccessOnlyWhenAllFulfilled
    /\ oPc = "returned" =>
          (oResult.kind = "success" <=> EveryDestinationFulfilled)
    /\ (oPc = "rejected" /\ oEnvelope # None) => ~AllSettled

\* The handler rejected after the fan-out had settled: recording the failure
\* (of a rejected destination, or of recording the success) itself failed.
\* Nothing was recorded after the start record and what was delivered stays
\* delivered.
FailureNotRecorded ==
    (oPc = "rejected" /\ oEnvelope # None) =>
          /\ AllSettled
          /\ oResult = HandlerThrew("failure not recorded")
          /\ oLedger = <<"start">>
          /\ \A i \in Destinations :
                dState[i] = "fulfilled" => dDelivered[i] # None

\* C4 amended: when the handler returns after a rejection, it returns a
\* failure with both groups of results and a failure record; a success is
\* returned, and recorded, only when every destination fulfilled; when every
\* destination fulfilled the handler returns the success, unless recording
\* the success failed: then it returns a failure without per-destination
\* results, with a failure record in the ledger; and in either case, when
\* recording the failure fails too, the handler rejects with no terminal
\* record. What was delivered stays delivered.
C4_PartialFailureReported ==
    /\ RejectionReported
    /\ SuccessOnlyWhenAllFulfilled
    /\ EveryDestinationFulfilled =>
          \/ oResult.kind = "success"
          \/ /\ oResult = FailureResponse("execution not marked successful", None)
             /\ oLedger = <<"start", "failure">>
             /\ \A i \in Destinations : dDelivered[i] # None
    /\ FailureNotRecorded

\* Two destinations, the first delivered and the second rejected: the
\* failure carries one fulfilled and one rejected result.
C4_WitnessPartialFailure ==
    /\ Aggregated
    /\ Len(dState) = 2
    /\ dState[1] = "fulfilled"
    /\ dOutcome[2] = Rejected("delivery failed")
    /\ oResult.kind = "failure"
    /\ oResult.details.fulfilled = <<[value |-> dOutcome[1].value]>>

(***************************************************************************)
(* Claims on the external poller                                           *)
(***************************************************************************)
\* pollSftp has returned its results and the handler has not yet acted on
\* them: pLastPollTime is still the watermark the run filtered with.
SftpPollReturned ==
    pPc = "polled" /\ pConfig.protocol = "sftp"

ExplicitList == pConfig.remoteFiles # <<>>

Paths(items) == {items[i].path : i \in 1..Len(items)}
ProcessedPaths == {pResults.processedFiles[i] : i \in 1..Len(pResults.processedFiles)}

WatermarkSkipped(name) ==
    \E i \in 1..Len(pResults.skippedItems) :
        pResults.skippedItems[i] =
            SkippedItem(RemoteFilePath(name), "not newer than last poll")

\* The remote file was downloaded, written to the bucket or deleted.
Transferred(name) ==
    \/ RemoteFilePath(name) \in pGetCalls
    \/ DestinationKey(name) \in pPutCalls
    \/ RemoteFilePath(name) \in pDeleteCalls

InSomeBucket(name) ==
    RemoteFilePath(name) \in
        ProcessedPaths \cup Paths(pResults.skippedItems)
                       \cup Paths(pResults.processingErrors)

\* How often the entry appears in the three result lists together.
Occurrences(name) ==
    Cardinality({i \in 1..Len(pResults.processedFiles) :
                    pResults.processedFiles[i] = RemoteFilePath(name)})
    + Cardinality({i \in 1..Len(pResults.skippedItems) :
                    pResults.skippedItems[i].path = RemoteFilePath(name)})
    + Cardinality({i \in 1..Len(pResults.processingErrors) :
                    pResults.processingErrors[i].path = RemoteFilePath(name)})

\* The listing reports a modification time for the candidate, and it is
\* strictly less than (equal to) the run's lastPollTime.
ReportedOlder(file) ==
    file.hasModifyTime /\ pLastPollTime.set /\ file.modifyTime < pLastPollTime.t
ReportedEqual(file) ==
    file.hasModifyTime /\ pLastPollTime.set /\ file.modifyTime = pLastPollTime.t

FirstOlderCandidate(k) ==
    /\ ReportedOlder(pFiles[k])
    /\ \A j \in 1..(k - 1) : ~ReportedOlder(pFiles[j])

\* C6: in a poll run the first candidate whose modification time is strictly
\* less than lastPollTime is recorded in skippedItems and is neither
\* downloaded, written nor deleted, and no candidate after it in listing
\* order is downloaded, written, deleted or added to a result bucket; a
\* candidate whose modification time equals lastPollTime is not skipped.
C6_OlderCandidateEndsRun ==
    SftpPollReturned =>
        \A k \in 1..Len(pFiles) :
            /\ FirstOlderCandidate(k) =>
                  /\ WatermarkSkipped(pFiles[k].name)
                  /\ ~Transferred(pFiles[k].name)
                  /\ \A j \in (k + 1)..Len(pFiles) :
                        /\ ~Transferred(pFiles[j].name)
                        /\ ~InSomeBucket(pFiles[j].name)
            /\ ReportedEqual(pFiles[k]) => ~WatermarkSkipped(pFiles[k].name)

\* The k-th list call of the explicit list did not return exactly one match.
Mismatch(k) == Len(pListCalls[k].result) # 1

NeverListed(name) ==
    \A k \in 1..Len(pListCalls) : pListCalls[k].path # RemoteFilePath(name)

\* C7: with a non-empty explicit remoteFiles list, a named entry whose
\* listing returns zero or several matches is recorded as a processing error
\* for that entry and ends the resolution of the list: no entry named after
\* it is listed, transferred or put in a result bucket in that run.
C7_MismatchHaltsResolution ==
    (pConfig.protocol = "sftp" /\ ExplicitList) =>
        \A k \in 1..Len(pListCalls) :
            Mismatch(k) =>
                /\ k = Len(pListCalls)
                /\ pPc # "list"
                /\ pListCalls[k].path \in Paths(pResults.processingErrors)
                /\ ~Transferred(pConfig.remoteFiles[k])
                /\ \A j \in (k + 1)..Len(pConfig.remoteFiles) :
                      /\ NeverListed(pConfig.remoteFiles[j])
                      /\ ~Transferred(pConfig.remoteFiles[j])
                      /\ ~InSomeBucket(pConfig.remoteFiles[j])

\* remoteFiles = [1, 2], the listing of 1 is ambiguous, the run has returned.
C7_WitnessAmbiguousFirstEntry ==
    /\ SftpPollReturned
    /\ Len(pConfig.remoteFiles) = 2
    /\ Len(pListCalls) = 1
    /\ Len(pListCalls[1].result) = 2
    /\ pResults.processingErrors =
          <<ProcessingError(RemoteFilePath(1), "expected exactly one match")>>

\* The names of the remote entries the run listed: the entries of the
\* directory listing, or the names of the explicit list.
ListedNames ==
    IF ExplicitList
    THEN {pConfig.remoteFiles[i] : i \in 1..Len(pConfig.remoteFiles)}
    ELSE {pListCalls[1].result[i].name : i \in 1..Len(pListCalls[1].result)}

\* C8 as stated: after a poll run returns, every remote entry the run listed
\* appears in exactly one of processedFiles, skippedItems, processingErrors.
C8_EveryListedEntryInOneBucket ==
    SftpPollReturned => \A name \in ListedNames : Occurrences(name) = 1

\* The candidate follows, in listing order, a candidate that was skipped for
\* being older than the watermark.
FollowsSkippedCandidate(name) ==
    \E k \in 1..Len(pFiles) :
        /\ pFiles[k].name = name
        /\ \E j \in 1..(k - 1) : WatermarkSkipped(pFiles[j].name)

\* The name comes, in the explicit list, after a name whose listing did not
\* return exactly one match.
FollowsMismatch(name) ==
    /\ ExplicitList
    /\ \E j \in 1..Len(pConfig.remoteFiles) :
          /\ pConfig.remoteFiles[j] = name
          /\ \E k \in 1..Len(pListCalls) : k < j /\ Mismatch(k)

\* C8, amended: after a poll run returns, every listed entry appears exactly
\* once in exactly one of the three lists, except the candidates that follow
\* a watermark-skipped candidate and the names that follow a mismatched name
\* of the explicit list, which appear in none.
C8_EveryEvaluatedEntryInOneBucket ==
    SftpPollReturned =>
        \A name \in ListedNames :
            Occurrences(name) =
                IF FollowsSkippedCandidate(name) \/ FollowsMismatch(name)
                THEN 0 ELSE 1

\* A directory of two plain files: the first is skipped for being older than
\* the watermark, the second is in no list.
C8_WitnessEntryInNoBucket ==
    /\ SftpPollReturned
    /\ ~ExplicitList
    /\ Len(pListCalls[1].result) = 2
    /\ WatermarkSkipped(1)
    /\ Occurrences(1) = 1
    /\ Occurrences(2) = 0

Failed(ledger) == ledger # <<>> /\ ledger[Len(ledger)] = "failure"

\* C9: the stored lastPollTime changes only in a step taken after the poll
\* returned with no processing error; and a run that ends after a processing
\* error, a missing config, an unsupported protocol or a thrown error of the
\* poll ends as a failed execution, with the stored lastPollTime as it was
\* when the run read it.
C9_LastPollTimeOnlyOnSuccess ==
    /\ [][ /\ pStoredLastPollTime' # pStoredLastPollTime =>
                 /\ pPc = "polled"
                 /\ pPoll = "returned"
                 /\ pResults.processingErrors = <<>>
           /\ (pPc \notin {"start", "returned"} /\ pPc' = "returned"
                  /\ (\/ pPoll' # "returned"
                      \/ pResults.processingErrors # <<>>)) =>
                 /\ pOutcome'.kind = "failure"
                 /\ Failed(pLedger')
                 /\ pStoredLastPollTime' = pStoredLastPollTime ]_vars
    /\ []((pPoll \in {"running", "threw"} \/ pResults.processingErrors # <<>>)
              => pStoredLastPollTime = pLastPollTime)

\* A run that ended after a processing error, later than the stored
\* lastPollTime, which is the one the run started with.
C9_WitnessProcessingErrorKeepsTime ==
    /\ pPc = "returned"
    /\ pPoll = "returned"
    /\ pResults.processingErrors # <<>>
    /\ pOutcome.kind = "failure"
    /\ pLastPollTime.set
    /\ pStoredLastPollTime = pLastPollTime
    /\ pClock > pStoredLastPollTime.t

\* The poll call of this run connected, and has returned or thrown.
PollExitedAfterConnecting ==
    /\ pConfig.protocol = "sftp"
    /\ \/ pPoll = "returned"
       \/ /\ pPoll = "threw"
          /\ pOutcome.kind = "failure"
          /\ pOutcome.error # "connect failed"

\* C10: a poll run that establishes a remote connection has disconnected it
\* by the time the poll call returns or throws, on every exit path.
C10_ConnectionReleasedOnEveryExit ==
    PollExitedAfterConnecting => pConn = "closed"

\* C11: when the config's protocol is not one of ftp and sftp, the execution
\* that returns ends as a failure with a failure record (the handler rejects
\* instead, with no terminal record, only when a ledger call rejected), and
\* no connection attempt, listing, download, write or delete is made and the
\* stored lastPollTime does not change.
C11_UnsupportedProtocolIsFatal ==
    /\ [](  (pConfig.exists /\ pConfig.protocol \notin {"ftp", "sftp"}) =>
               /\ pPoll = "none"
               /\ pConn = "closed"
               /\ pListCalls = <<>>
               /\ pGetCalls = {} /\ pPutCalls = {} /\ pDeleteCalls = {}
               /\ pResults = EmptyResults
               /\ pPc \in {"start", "config", "returned", "rejected"}
               /\ pPc = "returned" =>
                     pOutcome.kind = "failure" /\ Failed(pLedger)
               /\ pPc = "rejected" =>
                     /\ pOutcome.kind = "threw"
                     /\ pLedger \in {<<>>, <<"start">>})
    /\ [][ (pConfig.exists /\ pConfig.protocol \notin {"ftp", "sftp"}) =>
               pStoredLastPollTime' = pStoredLastPollTime ]_vars

C11_WitnessUnsupportedProtocol ==
    /\ pConfig.exists
    /\ pConfig.protocol = "http"
    /\ pPc = "returned"
    /\ pOutcome = FailureResponse("unsupported connection protocol", None)
    /\ pStoredLastPollTime.set

\* A download, write or delete is in flight for candidate pIndex.
CandidateInFlight == pPc \in {"get", "put", "delete"}

\* C12: a failure of the download, the write or the delete of a candidate
\* adds exactly one processing error, for that candidate, and the loop goes
\* on with the next candidate, the poll call still running; and when the run
\* has returned, every candidate that does not follow a watermark-skipped
\* candidate (and is not one) was downloaded and is either processed, with
\* its write issued, or in processingErrors, once.
C12_CandidateFailureIsolated ==
    /\ [][ (CandidateInFlight
               /\ pResults'.processingErrors # pResults.processingErrors) =>
              /\ pResults'.processingErrors =
                    Append(pResults.processingErrors,
                           [path |-> RemoteFilePath(pFiles[pIndex].name),
                            errorMessage |->
                               pResults'.processingErrors[
                                  Len(pResults'.processingErrors)].errorMessage])
              /\ pResults'.processedFiles = pResults.processedFiles
              /\ pResults'.skippedItems = pResults.skippedItems
              /\ pIndex' = pIndex + 1
              /\ pPc' = "loop"
              /\ pPoll' = "running"
              /\ pOutcome' = Pending ]_vars
    /\ [](SftpPollReturned =>
             \A k \in 1..Len(pFiles) :
                LET name == pFiles[k].name
                IN  (~WatermarkSkipped(name) /\ ~FollowsSkippedCandidate(name)) =>
                       /\ RemoteFilePath(name) \in pGetCalls
                       /\ Occurrences(name) = 1
                       /\ \/ RemoteFilePath(name) \in Paths(pResults.processingErrors)
                          \/ /\ RemoteFilePath(name) \in ProcessedPaths
                             /\ DestinationKey(name) \in pPutCalls)

\* Two candidates: the first failed, the second was processed, and the run
\* returned.
C12_WitnessLaterCandidateProcessed ==
    /\ SftpPollReturned
    /\ Len(pFiles) = 2
    /\ Paths(pResults.processingErrors) = {RemoteFilePath(pFiles[1].name)}
    /\ pResults.processedFiles = <<RemoteFilePath(pFiles[2].name)>>

(***************************************************************************)
(* Further claims on the outbound pipeline                                 *)
(***************************************************************************)
ScopedToEvent(issued, segment) ==
    /\ issued.segment = segment
    /\ issued.usageIndicatorCode = oConfig.usageIndicatorCode
    /\ issued.sendingPartnerId = oEvent.sendingPartnerId
    /\ issued.receivingPartnerId = oEvent.receivingPartnerId

\* C13: an execution issues at most two control numbers, the first for ISA
\* and the second for GS, both scoped by the selected config's usage
\* indicator and the event's sender and receiver; once the fan-out has
\* started exactly those two were issued, whatever the number of
\* destinations, and every translation was handed the one envelope that
\* carries them.
C13_TwoControlNumbersPerEvent ==
    /\ Len(oIssued) <= 2
    /\ Len(oIssued) >= 1 => ScopedToEvent(oIssued[1], "ISA")
    /\ Len(oIssued) >= 2 => ScopedToEvent(oIssued[2], "GS")
    /\ FannedOut =>
          /\ Len(oIssued) = 2
          /\ oEnvelope.interchangeHeader.controlNumber = oIssued[1].number
          /\ oEnvelope.groupHeader.controlNumber = oIssued[2].number
          /\ \A i \in Destinations :
                dTranslated[i] # None => dTranslated[i] = oEnvelope

\* Two destinations were translated, with the same envelope.
C13_WitnessSharedEnvelope ==
    /\ Aggregated
    /\ Len(dState) = 2
    /\ dTranslated[1] = oEnvelope
    /\ dTranslated[2] = oEnvelope
    /\ Len(oIssued) = 2
    /\ oIssued[1].number = 2

\* The transaction sets of the event's payload carry two or more distinct
\* identifier codes.
MixedIdentifierCodes ==
    /\ oEvent.valid
    /\ Cardinality(UniqueTransactionSets(normalizeGuideJson(oEvent.payload))) >= 2

\* C14: an event whose payload transaction sets carry two or more distinct
\* identifier codes is rejected with a fatal failure before any control
\* number is issued and before any delivery attempt, with or without an
\* explicit metadata.transactionSet.
C14_MixedIdentifierCodesRejected ==
    MixedIdentifierCodes =>
        /\ oIssued = <<>>
        /\ dState = <<>>
        /\ NoDeliveryAttempted
        /\ oPc = "returned" => oResult = FailureResponse(oResult.error, None)

\* The destination of the i-th entry as the config was stored.
ConfiguredDestination(i) ==
    DestinationEntry(oConfig.destinations[i].destination.type,
                     oConfig.destinations[i].mappingId).destination

\* The ISA control numbers another event of the same scope can get.
OtherIsaControlNumbers == (1..(MaxPrior + 2)) \ {oIssued[1].number}

\* C15: the destination handed to delivery is, for a bucket destination, the
\* configured one with its path followed by "/", the event's ISA control
\* number, "-", the transaction set type and ".edi", once; and for any other
\* destination the configured one. The object path of an event with another
\* ISA control number through the same config differs.
C15_BucketObjectPath ==
    \A i \in 1..Len(dDelivered) :
        dDelivered[i] # None =>
            LET configured == ConfiguredDestination(i)
            IN  IF configured.type = "bucket"
                THEN /\ dDelivered[i] =
                           [type |-> "bucket",
                            path |-> configured.path \o
                                  <<"/", oIssued[1].number, "-", oType, ".edi">>]
                     /\ \A n \in OtherIsaControlNumbers :
                           DeliveryTarget(configured, n, oType).path
                              # dDelivered[i].path
                ELSE dDelivered[i] = configured

\* A bucket and a webhook destination were both delivered.
C15_WitnessBucketAndWebhook ==
    /\ Aggregated
    /\ Len(dState) = 2
    /\ dState[1] = "fulfilled" /\ dState[2] = "fulfilled"
    /\ dDelivered[1].type = "bucket"
    /\ dDelivered[1].path = <<"out", "/", 2, "-", "850", ".edi">>
    /\ dDelivered[2].type = "webhook"
    /\ dDelivered[2].path = <<"out">>

\* C20 as stated: an outbound execution writes a start record first and then
\* exactly one terminal record, a success record when it returns its delivery
\* results and a failure record when it returns a failure, on every path.
C20_StartThenOneTerminalRecord ==
    /\ oLedger \in {<<>>, <<"start">>, <<"start", "success">>,
                    <<"start", "failure">>}
    /\ oPc \in {"returned", "rejected"} =>
          oLedger = IF oResult.kind = "success"
                    THEN <<"start", "success">>
                    ELSE <<"start", "failure">>

\* C20 amended: every ledger call of an execution writes its one record or
\* fails and writes nothing, so the ledger holds at most one start record,
\* before any other record, and at most one terminal record, never both a
\* success and a failure record. The start record is there from the first
\* step on, unless writing it failed. An execution that returns its delivery
\* results has written the start and then the success record; one that
\* returns a failure has written exactly one failure record, after the start
\* record, or alone when the start record could not be written; and an
\* execution whose failure could not be recorded rejects, with the ledger as
\* it was: the start record alone, or nothing.
C20_OneTerminalRecordAtReturn ==
    /\ [](/\ oPc = "start" => oLedger = <<>>
          /\ oPc \notin {"start", "returned", "rejected"} =>
                oLedger = <<"start">>
          /\ oPc = "returned" =>
                oLedger = IF oResult.kind = "success"
                          THEN <<"start", "success">>
                          ELSE IF oResult.error = "execution not recorded"
                          THEN <<"failure">>
                          ELSE <<"start", "failure">>
          /\ oPc = "rejected" =>
                /\ oResult = HandlerThrew("failure not recorded")
                /\ oLedger \in {<<>>, <<"start">>})
    /\ [][oPc' = "rejected" => oLedger' = oLedger]_vars

\* One execution ended with a success record after two deliveries.
C20_WitnessSuccessRecorded ==
    /\ oPc = "returned"
    /\ Len(dState) = 2
    /\ oResult.kind = "success"
    /\ oLedger = <<"start", "success">>

(***************************************************************************)
(* Further claims on the external poller                                   *)
(***************************************************************************)
\* The directory listing of the run holds one plain file whose reported
\* modification time is after epoch zero.
OnePlainFileAfterEpoch ==
    /\ ~ExplicitList
    /\ Len(pListCalls) = 1
    /\ Len(pListCalls[1].result) = 1
    /\ pListCalls[1].result[1].type = "-"
    /\ pListCalls[1].result[1].hasModifyTime
    /\ pListCalls[1].result[1].modifyTime > 0

\* No download, write or delete of the run failed.
NoTransferFailed ==
    \A i \in 1..Len(pResults.processingErrors) :
        pResults.processingErrors[i].errorMessage
            \notin {"get failed", "put failed", "delete failed"}

\* C16: a poll with lastPollTime unset, no explicit remoteFiles and a
\* directory of one plain file modified after epoch zero, every transport
\* call succeeding, returns processedFiles with that file's remote path and
\* no skipped item and no processing error.
C16_UnsetLastPollTimeProcessesFile ==
    (SftpPollReturned /\ pLastPollTime = Unset /\ OnePlainFileAfterEpoch
         /\ NoTransferFailed) =>
        pResults =
            [processedFiles |-> <<RemoteFilePath(pListCalls[1].result[1].name)>>,
             skippedItems |-> <<>>,
             processingErrors |-> <<>>]

C16_WitnessFileProcessed ==
    /\ SftpPollReturned
    /\ pLastPollTime = Unset
    /\ OnePlainFileAfterEpoch
    /\ pConfig.deleteAfterProcessing
    /\ pResults.processedFiles = <<RemoteFilePath(1)>>
    /\ pGetCalls = {RemoteFilePath(1)}
    /\ pPutCalls = {DestinationKey(1)}
    /\ pDeleteCalls = {RemoteFilePath(1)}

\* The k-th list call of the explicit list returned one match that is not a
\* plain file.
NonFileMatch(k) ==
    /\ Len(pListCalls[k].result) = 1
    /\ pListCalls[k].result[1].type # "-"

\* C18: with a non-empty explicit remoteFiles list, a named entry that
\* matches one remote entry that is not a plain file is recorded as a
\* processing error and is not a candidate, and it ends the resolution of
\* the list: no entry named after it is listed, transferred or put in a
\* result bucket in that run.
C18_NonFileMatchHaltsResolution ==
    (pConfig.protocol = "sftp" /\ ExplicitList) =>
        \A k \in 1..Len(pListCalls) :
            NonFileMatch(k) =>
                /\ pListCalls[k].path \in Paths(pResults.processingErrors)
                /\ \A c \in 1..Len(pFiles) :
                      pFiles[c].name # pConfig.remoteFiles[k]
                /\ ~Transferred(pConfig.remoteFiles[k])
                /\ k = Len(pListCalls)
                /\ pPc # "list"
                /\ \A j \in (k + 1)..Len(pConfig.remoteFiles) :
                      /\ NeverListed(pConfig.remoteFiles[j])
                      /\ ~Transferred(pConfig.remoteFiles[j])
                      /\ ~InSomeBucket(pConfig.remoteFiles[j])

\* The candidate the loop is at.
CurrentPath == RemoteFilePath(pFiles[pIndex].name)
CurrentKey == DestinationKey(pFiles[pIndex].name)

\* C19: in an sftp poll run a destination write is issued only after the
\* candidate's download settled without error; a remote delete is issued
\* only when deleteAfterProcessing is set, in the step in which the
\* candidate's write succeeded; a remote path is added to processedFiles only
\* in the step in which its write succeeded (deleteAfterProcessing not set)
\* or its delete succeeded (set); and when deleteAfterProcessing is not set
\* no remote delete is ever issued.
C19_TransferStepsInOrder ==
    /\ [][ pConfig.protocol = "sftp" =>
             /\ ~(pPutCalls' \subseteq pPutCalls) =>
                   /\ pPc = "get"
                   /\ CurrentPath \in pGetCalls
                   /\ pPutCalls' = pPutCalls \cup {CurrentKey}
                   /\ pResults' = pResults
             /\ ~(pDeleteCalls' \subseteq pDeleteCalls) =>
                   /\ pPc = "put"
                   /\ pConfig.deleteAfterProcessing
                   /\ CurrentKey \in pPutCalls
                   /\ pDeleteCalls' = pDeleteCalls \cup {CurrentPath}
                   /\ pResults' = pResults
             /\ Len(pResults'.processedFiles) > Len(pResults.processedFiles) =>
                   /\ pResults'.processedFiles =
                         Append(pResults.processedFiles, CurrentPath)
                   /\ pResults'.processingErrors = pResults.processingErrors
                   /\ CurrentPath \in pGetCalls
                   /\ CurrentKey \in pPutCalls
                   /\ IF pConfig.deleteAfterProcessing
                      THEN pPc = "delete" /\ CurrentPath \in pDeleteCalls
                      ELSE pPc = "put" /\ CurrentPath \notin pDeleteCalls
          ]_vars
    /\ [](~pConfig.deleteAfterProcessing => pDeleteCalls = {})

\* A candidate was downloaded, written, deleted and recorded as processed.
C19_WitnessDeletedThenProcessed ==
    /\ pConfig.protocol = "sftp"
    /\ pConfig.deleteAfterProcessing
    /\ pPc = "loop"
    /\ pIndex = 2
    /\ pResults.processedFiles = <<RemoteFilePath(pFiles[1].name)>>
    /\ RemoteFilePath(pFiles[1].name) \in pDeleteCalls

\* C17: when pollSftp calls for different configs are in progress at the
\* same time, every list, get, delete and disconnect a run issues acts on
\* the connection that run's own connect established, never on (and never
\* closing) the connection of another run.
C17_EachRunOwnsItsConnection ==
    \A a \in sActed : a.connection = a.run

(***************************************************************************)
(* Claims on the order of the outbound steps                               *)
(***************************************************************************)
\* deliverToDestination was called for the i-th destination.
DeliveryInvoked(i) == dDelivered[i] # None

\* The guide JSON of the i-th destination is what its mapping returned, or
\* the event's payload when it has no mappingId.
GuideJsonFromItsSource(i) ==
    IF oConfig.destinations[i].mappingId # NoId
    THEN dGuideJson[i] \in MappingOutputs
    ELSE dGuideJson[i] = oEvent.payload

FailedBeforeDelivery(i) ==
    /\ dOutcome[i] # None
    /\ dOutcome[i].status = "rejected"
    /\ dOutcome[i].reason # "delivery failed"

\* C22: delivery to a destination is invoked only in the step in which that
\* destination's translation succeeded, with both control numbers issued;
\* the translation was called only with guide JSON that came from the
\* destination's mapping (when it has a mappingId) and passed the control
\* number validation; and a destination whose mapping, validation or
\* translation failed never has delivery invoked.
C22_DeliveryAfterItsOwnSteps ==
    /\ [](\A i \in 1..Len(dDelivered) :
             /\ dState[i] \in {"translating", "delivering", "fulfilled"} =>
                   /\ Len(oIssued) = 2
                   /\ GuideJsonFromItsSource(i)
                   /\ validateTransactionSetControlNumbers(dGuideJson[i]) = Ok
                   /\ dTranslated[i] = oEnvelope
             /\ DeliveryInvoked(i) =>
                   dState[i] \in {"delivering", "fulfilled", "rejected"}
             /\ dState[i] \in {"delivering", "fulfilled"} => DeliveryInvoked(i)
             /\ FailedBeforeDelivery(i) => ~DeliveryInvoked(i))
    /\ [][ \A i \in 1..Len(dDelivered') :
             IF Len(dDelivered) = 0
             THEN dDelivered'[i] = None
             ELSE /\ (dDelivered'[i] # None /\ dDelivered[i] = None) =>
                        /\ dState[i] = "translating"
                        /\ dState'[i] = "delivering"
                  /\ (dState'[i] = "translating" /\ dState[i] # "translating") =>
                        /\ dState[i] = "mapping"
                        /\ oConfig.destinations[i].mappingId # NoId
                  /\ dDelivered[i] # None => dDelivered'[i] = dDelivered[i]
          ]_vars

\* Of two destinations with a mapping, the first failed in translation and
\* had no delivery invoked, the second was delivered.
C22_WitnessDeliveredAfterMapping ==
    /\ Aggregated
    /\ Len(dState) = 2
    /\ oConfig.destinations[1].mappingId # NoId
    /\ oConfig.destinations[2].mappingId # NoId
    /\ dOutcome[1] = Rejected("translation failed")
    /\ ~DeliveryInvoked(1)
    /\ dState[2] = "fulfilled"
    /\ DeliveryInvoked(2)

\* The execution issued the ISA control number and nothing after it.
OnlyIsaIssued == Len(oIssued) = 1 /\ oPc = "returned"

\* C23: when the ISA control number was issued and issuing the GS control
\* number failed, the execution ends as a fatal failure, no mapping,
\* translation or delivery is attempted for any destination, and the ISA
\* number stays consumed: the execution has consumed exactly one control
\* number. The same holds, but for the returned failure, when recording the
\* failure fails and the handler rejects.
C23_GsFailureKeepsIsaConsumed ==
    /\ Len(oIssued) >= 1 =>
          /\ oIssued[1].segment = "ISA"
          /\ oCounters["ISA"] = oIssued[1].number
    /\ OnlyIsaIssued =>
          /\ oResult = FailureResponse("control number not issued", None)
          /\ oLedger = <<"start", "failure">>
          /\ oCounters["GS"] = 0
          /\ oEnvelope = None
          /\ dState = <<>>
          /\ dGuideJson = <<>>
          /\ dTranslated = <<>>
          /\ NoDeliveryAttempted
    /\ (Len(oIssued) = 1 /\ oPc = "rejected") =>
          /\ oResult = HandlerThrew("failure not recorded")
          /\ oLedger = <<"start">>
          /\ oCounters["GS"] = 0
          /\ oEnvelope = None
          /\ dState = <<>>
          /\ dGuideJson = <<>>
          /\ dTranslated = <<>>
          /\ NoDeliveryAttempted

\* One control number had been issued before; the execution took the next
\* ISA number and failed at the GS number.
C23_WitnessGsFailed ==
    /\ OnlyIsaIssued
    /\ oIssued[1].number = 2
    /\ oCounters = [g \in Segments |-> IF g = "ISA" THEN 2 ELSE 0]
    /\ oResult.kind = "failure"

(***************************************************************************)
(* Claims on the watermark across poll runs                                *)
(***************************************************************************)
\* The handler's step that ends a directory-listing sftp run without
\* processing errors and advances lastPollTime; before the step
\* pLastPollTime is the previous lastPollTime, the one the run filtered with.
AdvancesLastPollTime ==
    /\ pPc = "polled"
    /\ pConfig.protocol = "sftp"
    /\ ~ExplicitList
    /\ pResults.processingErrors = <<>>
    /\ pPc' = "persisted"
    /\ pStoredLastPollTime' = pLastPollTime'

\* The listed entry is a plain file with a reported modification time that
\* is not older than the previous lastPollTime.
NotOlderThanLastPollTime(entry) ==
    /\ entry.type = "-"
    /\ entry.hasModifyTime
    /\ pLastPollTime.set => entry.modifyTime >= pLastPollTime.t

\* C21: whenever a directory-listing run ends without processing errors and
\* lastPollTime is advanced, every plain file the run listed with a
\* modification time not older than the previous lastPollTime is in that
\* run's processedFiles.
C21_NoFileLostToWatermark ==
    [][ AdvancesLastPollTime =>
           \A k \in 1..Len(pListCalls[1].result) :
              NotOlderThanLastPollTime(pListCalls[1].result[k]) =>
                 RemoteFilePath(pListCalls[1].result[k].name) \in ProcessedPaths
      ]_vars

====
